---------------------------- MODULE Spec2Model ----------------------------
(***************************************************************************)
(* Model of the response capture engine of mcp-claude-desktop:             *)
(*   - runAppleScript        (utils/applescript.ts): the Script Runner     *)
(*   - escapeAppleScriptString (utils/applescript.ts)                      *)
(*   - extractClaudeResponse (tools/claude-desktop.ts): the Reply Extractor*)
(*   - pollForClaudeResponse (tools/claude-desktop.ts): the Stability      *)
(*     Poller                                                              *)
(*   - askClaude             (tools/claude-desktop.ts): the Clipboard      *)
(*     Guard and the Prompt Submitter around the poller                    *)
(*   - Logger                (utils/logger.ts)                             *)
(*   - ErrorHandler.handle and ErrorHandler.withRetry                      *)
(*                           (utils/error-handler.ts)                      *)
(*   - ToolHandler.handleAsk, handleGetConversations (handlers) and        *)
(*     getConversations      (tools/claude-desktop.ts)                     *)
(*   - handleCodeReviewRequest, pollForResponse (tools/code-review.ts)     *)
(* Strings are TLA+ strings; the JavaScript string functions the code uses *)
(* (trim, indexOf, includes, startsWith, substring, replace) are computed  *)
(* character by character.  Time is a counter of abstract time units that  *)
(* the awaited operations (script executions, delays) advance.             *)
(***************************************************************************)
EXTENDS Integers, Sequences, FiniteSets, TLC

VARIABLES
    now,        \* Date.now(), in abstract time units
    run,        \* the activation of runAppleScript that is in progress
    poll,       \* the activation of pollForClaudeResponse (the PollSession)
    ask,        \* the activation of askClaude
    clipboard,  \* the system clipboard
    abandoned,  \* a script execution that lost the timeout race still runs
    ext,        \* an application of extractClaudeResponse on its own
    retry,      \* the activation of ErrorHandler.withRetry
    logger,     \* the Logger instance and the lines it wrote to stderr
    handled,    \* a call of ErrorHandler.handle on its own
    tool,       \* the activation of a ToolHandler method
    review,     \* the activation of handleCodeReviewRequest
    config,     \* the exported config object and the latest updateConfig call
    reviews,    \* the concurrent activations of handleCodeReviewRequest
    pendingReviews  \* the registry of the concurrent activations

vars == <<now, run, poll, ask, clipboard, abandoned, ext,
          retry, logger, handled, tool, review,
          config, reviews, pendingReviews>>

(***************************************************************************)
(* Bounds of the model (time is scaled: one unit stands for the polling    *)
(* interval).                                                              *)
(***************************************************************************)
\* options.timeout of runAppleScript: the wall-clock budget of one attempt
ScriptTimeout == 2
\* options.retryDelay of runAppleScript
RetryDelay == 1
\* options.interval of pollForClaudeResponse
PollInterval == 1
\* options.timeout of pollForClaudeResponse
PollTimeout == 5
\* largest value of options.retries a caller passes
MaxRetries == 3
\* pollingOptions.timeout of askClaude
AskPollTimeout == 3
\* largest number of segments of a raw text given to extractClaudeResponse
MaxSegments == 3
\* config.claude.responseStartDelay
ResponseStartDelay == 2
\* largest number of lines written to stderr
MaxLines == 2
\* largest number of calls of ErrorHandler.handle on its own
MaxHandled == 1
\* largest options.maxAttempts of withRetry
MaxAttempts == 3
\* number of values of options.maxAttempts below 1, where any number is taken
NonPositiveAttempts == 2
\* options.retryDelay of withRetry
BackoffDelay == 1
\* options.backoffMultiplier of withRetry
BackoffMultiplier == 2
\* pollingOptions.timeout of handleCodeReviewRequest
ReviewTimeout == 3
\* pollingOptions.interval of handleCodeReviewRequest
ReviewInterval == 1
\* largest pollingOptions.maxAttempts of handleCodeReviewRequest
MaxReviewAttempts == 2
\* largest number of calls of updateConfig
MaxUpdates == 2
\* number of concurrent calls of handleCodeReviewRequest
MaxConcurrentReviews == 2
\* the delay of the timer that removes an entry of pendingReviews
PendingReviewDelay == 4

(***************************************************************************)
(* Program constants.                                                      *)
(***************************************************************************)
\* const { timeout = 30000, retries = 3, retryDelay = 1000 } = options
DefaultRetries == 3
\* if (script.length > 50000)
MaxScriptLength == 50000
\* config.polling.requiredStableChecks
requiredStableChecks == 2
\* if (cleanedText.length > 50 && ...)
MinFallbackLength == 50
\* if (cleanedContent.length > 50) of extractReviewContent
MinReviewLength == 50
\* const maxLength = 10000 of escapeAppleScriptString
MaxStringLength == 10000
\* config.limits.maxPromptLength
maxPromptLength == 10000
\* config.limits.maxConversationIdLength
maxConversationIdLength == 100
\* appleScriptErrorNumber of an error whose message carries no "(<digits>)"
NoNumber == -1
\* the time of an event that has not happened
NotYet == -1

(***************************************************************************)
(* JavaScript string functions.                                            *)
(***************************************************************************)
WhiteSpace == {" ", "\t", "\n", "\r"}

Digits == {"0", "1", "2", "3", "4", "5", "6", "7", "8", "9"}

charAt(s, i) == SubSeq(s, i, i)

MinOf(S) == CHOOSE i \in S : \A j \in S : i <= j

MaxOf(S) == CHOOSE i \in S : \A j \in S : i >= j

\* s.substring(from) with a 0-based index
substringFrom(s, from) == SubSeq(s, from + 1, Len(s))

\* s.substring(0, to) with a 0-based exclusive end
substringTo(s, to) == SubSeq(s, 1, to)

\* s.trim()
trim(s) ==
    IF s = "" THEN ""
    ELSE IF charAt(s, 1) \notin WhiteSpace /\ charAt(s, Len(s)) \notin WhiteSpace
    THEN s
    ELSE LET keep == {i \in 1..Len(s) : charAt(s, i) \notin WhiteSpace}
         IN  IF keep = {} THEN "" ELSE SubSeq(s, MinOf(keep), MaxOf(keep))

\* s.indexOf(sub): 0-based index of the first occurrence, -1 when there is none
indexOf(s, sub) ==
    LET hits == {i \in 0..(Len(s) - Len(sub)) : SubSeq(s, i + 1, i + Len(sub)) = sub}
    IN  IF hits = {} THEN -1 ELSE MinOf(hits)

\* s.includes(sub)
includes(s, sub) == indexOf(s, sub) # -1

\* s.startsWith(prefix)
startsWith(s, prefix) ==
    Len(prefix) <= Len(s) /\ SubSeq(s, 1, Len(prefix)) = prefix

\* s.endsWith(suffix)
endsWith(s, suffix) ==
    Len(suffix) <= Len(s) /\ SubSeq(s, Len(s) - Len(suffix) + 1, Len(s)) = suffix

\* s.replace(/\r\n/g, '\n').replace(/\r/g, '\n')
RECURSIVE normalizeNewlines(_)
normalizeNewlines(s) ==
    LET at == indexOf(s, "\r")
    IN  IF at = -1 THEN s
        ELSE substringTo(s, at) \o "\n"
             \o normalizeNewlines(substringFrom(s,
                    IF at + 2 <= Len(s) /\ charAt(s, at + 2) = "\n"
                    THEN at + 2 ELSE at + 1))

\* parseInt of a string of decimal digits
RECURSIVE parseInt(_)
parseInt(d) ==
    IF d = "" THEN 0
    ELSE 10 * parseInt(substringTo(d, Len(d) - 1))
         + (CHOOSE n \in 0..9 : ToString(n) = charAt(d, Len(d)))

\* the string c repeated n times
RECURSIVE repeat(_, _)
repeat(c, n) ==
    IF n = 0 THEN ""
    ELSE IF n % 2 = 0 THEN LET h == repeat(c, n \div 2) IN h \o h
    ELSE c \o repeat(c, n - 1)

\* s.replace(/c/g, r) for a one-character pattern c
RECURSIVE replaceAll(_, _, _)
replaceAll(s, c, r) ==
    IF Len(s) = 0 THEN ""
    ELSE IF Len(s) = 1 THEN (IF s = c THEN r ELSE s)
    ELSE LET h == Len(s) \div 2
         IN  replaceAll(SubSeq(s, 1, h), c, r) \o replaceAll(SubSeq(s, h + 1, Len(s)), c, r)


(***************************************************************************)
(* Errors.  An error is a record of the properties the code reads: name,   *)
(* message, code, and, for an AppleScriptError, scriptError, exitCode and  *)
(* the appleScriptErrorNumber runAppleScript attaches.                     *)
(***************************************************************************)
NoError ==
    [name |-> "", message |-> "", code |-> "", scriptError |-> "",
     exitCode |-> "", appleScriptErrorNumber |-> NoNumber, field |-> ""]

\* new Error(message), with the code the rejecting library sets, if any
Error(message, code) ==
    [NoError EXCEPT !.name = "Error", !.message = message, !.code = code]

\* new AppleScriptError(message, code, scriptError, exitCode)
AppleScriptError(message, code, scriptError, exitCode) ==
    [NoError EXCEPT !.name = "AppleScriptError", !.message = message, !.code = code,
                    !.scriptError = scriptError, !.exitCode = exitCode]

\* new ValidationError(message, field)
ValidationError(message, field) ==
    [NoError EXCEPT !.name = "ValidationError", !.message = message,
                    !.code = "VALIDATION_FAILED", !.field = field]

\* new ClaudeDesktopError(message, code, operation)
ClaudeDesktopError(message, code) ==
    [NoError EXCEPT !.name = "ClaudeDesktopError", !.message = message, !.code = code]

\* new SystemError(message)
SystemError(message) ==
    [NoError EXCEPT !.name = "SystemError", !.message = message, !.code = "SYSTEM_ERROR"]

\* a thrown string
StringValue(text) == [NoError EXCEPT !.name = "string", !.message = text]

\* a thrown object that is not an Error and has a message property
ObjectWithMessage(message) == [NoError EXCEPT !.name = "object", !.message = message]

\* the value undefined, thrown
Undefined == [NoError EXCEPT !.name = "undefined"]

\* error instanceof BaseError
isKnownError(error) ==
    error.name \in {"ValidationError", "AppleScriptError", "ClaudeDesktopError",
                    "SystemError"}

\* error instanceof Error
instanceofError(error) == isKnownError(error) \/ error.name = "Error"

\* error.message?.match(/\((\d+)\)$/): the digits matched, "" when no match
errorMatch(message) ==
    IF ~endsWith(message, ")") THEN ""
    ELSE LET body == substringTo(message, Len(message) - 1)
             nonDigits == {i \in 1..Len(body) : charAt(body, i) \notin Digits}
             open == IF nonDigits = {} THEN 0 ELSE MaxOf(nonDigits)
         IN  IF open >= 1 /\ open < Len(body) /\ charAt(body, open) = "("
             THEN SubSeq(body, open + 1, Len(body))
             ELSE ""

\* the errorCode chosen in the catch block of runAppleScript
ErrorCodeOf(error) ==
    IF error.code = "ETIMEDOUT" \/ includes(error.message, "timeout")
    THEN "APPLESCRIPT_TIMEOUT"
    ELSE IF includes(error.message, "is not allowed to send keystrokes")
    THEN "APPLESCRIPT_PERMISSION_DENIED"
    ELSE "APPLESCRIPT_EXECUTION_FAILED"

\* the number attached to the error: if (appleScriptErrorNumber) { ... }
AttachedNumber(message) ==
    LET m == errorMatch(message)
        appleScriptErrorNumber == IF m = "" THEN NoNumber ELSE parseInt(m)
    IN  IF appleScriptErrorNumber # NoNumber /\ appleScriptErrorNumber # 0
        THEN appleScriptErrorNumber
        ELSE NoNumber

\* ScriptError that is the error of the last attempt itself
ScriptError_Rethrown(retries, error) == error

\* the scriptError thrown when attempt === retries
ScriptError(retries, error) ==
    [AppleScriptError(
        "AppleScript execution failed after " \o ToString(retries)
            \o " attempts: " \o error.message,
        ErrorCodeOf(error), error.message, error.code)
     EXCEPT !.appleScriptErrorNumber = AttachedNumber(error.message)]

(***************************************************************************)
(* escapeAppleScriptString(str).                                           *)
(***************************************************************************)
\* the error escapeAppleScriptString throws, if any
escapeFailure(str) ==
    IF Len(str) > MaxStringLength
    THEN AppleScriptError(
             "String too long (" \o ToString(Len(str)) \o " chars, max "
                 \o ToString(MaxStringLength) \o ")",
             "INVALID_INPUT", "", "")
    ELSE NoError

\* str.replace(/\\/g, '\\\\').replace(/"/g, '\\"')
escapeAppleScriptString(str) ==
    replaceAll(replaceAll(str, "\\", "\\\\"), "\"", "\\\"")

(***************************************************************************)
(* runAppleScript(script, {timeout, retries, retryDelay}).                 *)
(* run.pc is the await the activation is suspended at:                     *)
(*   "idle"      no activation                                             *)
(*   "exec"      await Promise.race([runAppleScriptLib(script), timeout])  *)
(*   "delay"     await setTimeout(retryDelay)                              *)
(*   "returned"  resolved with run.result                                  *)
(*   "thrown"    rejected with run.error                                   *)
(* run.execs counts the calls of runAppleScriptLib, run.delays the retry   *)
(* delays waited, run.failures the attempts that ended in the catch block, *)
(* run.caught the error caught by the attempt that made it throw.          *)
(***************************************************************************)
IdleRun ==
    [pc |-> "idle", script |-> "", retries |-> 0, attempt |-> 0, execs |-> 0,
     delays |-> 0, failures |-> 0, stdout |-> "", result |-> "", error |-> NoError,
     caught |-> NoError]

\* the validation at the head of the try block: the error it throws, if any
ValidationFailure(script) ==
    IF trim(script) = ""
    THEN AppleScriptError("Script cannot be empty", "INVALID_INPUT", "", "")
    ELSE IF Len(script) > MaxScriptLength
    THEN AppleScriptError("Script too long", "INVALID_INPUT", "", "")
    ELSE NoError

\* catchBlock that gives up at the first failure, whatever `retries` is
catchBlock_ThrowsOnFirstFailure(r, error) ==
    [r EXCEPT !.pc = "thrown", !.failures = @ + 1, !.caught = error,
              !.error = ScriptError(r.retries, error)]

\* catch (error) { if (attempt === retries) throw scriptError; await delay }
catchBlock(r, error) ==
    IF r.attempt = r.retries
    THEN [r EXCEPT !.pc = "thrown", !.failures = @ + 1, !.caught = error,
                   !.error = ScriptError(r.retries, error)]
    ELSE [r EXCEPT !.pc = "delay", !.failures = @ + 1]

\* try { validate; await Promise.race([runAppleScriptLib(script), timeoutPromise]) }
tryBlock(r) ==
    IF ValidationFailure(r.script) # NoError
    THEN catchBlock(r, ValidationFailure(r.script))
    ELSE [r EXCEPT !.pc = "exec", !.execs = @ + 1]

\* for (...; attempt <= retries; ...) { try ... }  throw 'AppleScript execution failed'
forLoop(r) ==
    IF r.attempt <= r.retries
    THEN tryBlock(r)
    ELSE [r EXCEPT !.pc = "thrown",
                   !.error = AppleScriptError("AppleScript execution failed",
                                 "APPLESCRIPT_EXECUTION_FAILED", "", "")]

\* the call: everything up to the first await
runAppleScript(script, retries) ==
    forLoop([IdleRun EXCEPT !.script = script, !.retries = retries, !.attempt = 1])


(***************************************************************************)
(* extractClaudeResponse(fullText, prompt): string | null.                 *)
(* A result is a record: Null, or Some(text).                              *)
(***************************************************************************)
Null == [null |-> TRUE, text |-> ""]

Some(text) == [null |-> FALSE, text |-> text]

\* the truthiness test `if (response ...)`
Truthy(response) == ~response.null /\ response.text # ""

uiElements ==
    {"Claude can make mistakes", "Please double-check responses",
     "Reply to Claude...", "Chat controls", "Smart, efficient model",
     "No content added yet", "Copy", "Share", "Edit", "More", "Regenerate",
     "Continue generating"}

\* responseAfterPrompt that does not cut at the UI elements
responseAfterPrompt_NoCut(cleanedText, prompt) ==
    trim(substringFrom(cleanedText, indexOf(cleanedText, prompt) + Len(prompt)))

\* the text after the prompt, cut at the first UI element and trimmed
responseAfterPrompt(cleanedText, prompt) ==
    LET promptIndex == indexOf(cleanedText, prompt)
        afterPrompt == trim(substringFrom(cleanedText, promptIndex + Len(prompt)))
        found == {indexOf(afterPrompt, e) : e \in uiElements} \ {-1}
        firstUIElementIndex == MinOf(found \cup {Len(afterPrompt)})
    IN  IF firstUIElementIndex < Len(afterPrompt)
        THEN trim(substringTo(afterPrompt, firstUIElementIndex))
        ELSE afterPrompt

\* extractClaudeResponse that returns the whole text whenever it is long enough
extractClaudeResponse_NoEmptyStateTest(fullText, prompt) ==
    IF fullText = "" THEN Null
    ELSE IF startsWith(fullText, "Error:") THEN Null
    ELSE LET cleanedText == trim(normalizeNewlines(fullText))
         IN  IF /\ indexOf(cleanedText, prompt) # -1
                /\ Len(responseAfterPrompt(cleanedText, prompt)) > 0
             THEN Some(responseAfterPrompt(cleanedText, prompt))
             ELSE IF Len(cleanedText) > MinFallbackLength
             THEN Some(cleanedText)
             ELSE Null

extractClaudeResponse(fullText, prompt) ==
    IF fullText = "" THEN Null
    ELSE IF startsWith(fullText, "Error:") THEN Null
    ELSE LET cleanedText == trim(normalizeNewlines(fullText))
         IN  IF /\ indexOf(cleanedText, prompt) # -1
                /\ Len(responseAfterPrompt(cleanedText, prompt)) > 0
             THEN Some(responseAfterPrompt(cleanedText, prompt))
             ELSE IF /\ Len(cleanedText) > MinFallbackLength
                     /\ ~includes(cleanedText, "No content added yet")
             THEN Some(cleanedText)
             ELSE Null

\* an application of extractClaudeResponse: its arguments and its result
IdleExt == [pc |-> "idle", fullText |-> "", prompt |-> "", result |-> Null]

(***************************************************************************)
(* pollForClaudeResponse(requestId, originalPrompt, {timeout, interval}).  *)
(* poll.pc is the await the activation is suspended at:                    *)
(*   "idle"    no activation          "start"  called, not yet run         *)
(*   "sample"  await runAppleScript(script)                                *)
(*   "sleep"   await setTimeout(options.interval)                          *)
(*   "done"    resolved with poll.result; poll.exit tells through which    *)
(*             return: "skipped", "stable", "timeout" (the while condition *)
(*             failed) or "abort" (the break)                              *)
(* poll.currentText is the raw sample of the latest tick ("" when the      *)
(* sample threw).  History: poll.sameRun is the number of latest           *)
(* consecutive ticks that returned the same candidate with no typing       *)
(* indicator, and poll.runSince the time of the first of them;             *)
(* poll.allTyping tells that every sample that returned so far held a      *)
(* typing indicator, poll.sampled that a sampling script was started,      *)
(* poll.repeated that the latest tick extracted the candidate that         *)
(* lastResponseText held before it, poll.threw that the sample of the      *)
(* latest tick threw, and poll.seen the number of ticks that extracted the *)
(* candidate lastResponseText holds.                                       *)
(* poll.timeout is options.timeout and poll.SKIP_CLAUDE_POLLING the value  *)
(* of the environment variable of that name.                               *)
(***************************************************************************)
IdlePoll ==
    [pc |-> "idle", originalPrompt |-> "", timeout |-> 0, SKIP_CLAUDE_POLLING |-> "",
     startTime |-> 0, stableCount |-> 0, lastResponseText |-> "", currentText |-> "",
     result |-> "", exit |-> "", sameRun |-> 0, runSince |-> 0, allTyping |-> TRUE,
     sampled |-> FALSE, repeated |-> FALSE, threw |-> FALSE, seen |-> 0]

\* skipTest that takes any set value of the variable for a request to skip
skipTest_AnyValue(value) == value # ""

\* process.env.SKIP_CLAUDE_POLLING === 'true' (an unset variable is "")
skipTest(value) == value = "true"

\* the script of the Text Sampler (only its first statement is kept)
SampleScript == "tell application \"System Events\" if not (exists process \"Claude\") then"

ProcessNotFound == "Error: Claude process not found"

NoWindow == "Error: No Claude window"

ErrorReadingWindow == "Error reading window: "

SkippedMessage == "Message sent to Claude Desktop successfully. Response polling is disabled."

\* the text returned when no response was captured
UnableToRead(originalPrompt) ==
    "Message sent to Claude Desktop successfully. \n\nNote: Due to Claude Desktop's architecture, responses cannot be read programmatically through this MCP integration. \n\nThe prompt \""
    \o originalPrompt
    \o "\" has been sent and Claude should be responding in the desktop app. Please check the Claude Desktop window directly for the response.\n\nThis is a known limitation of automating Electron-based applications."

\* currentText.includes('▍') || includes('Claude is typing') || includes('Thinking')
HasTypingIndicator(currentText) ==
    \/ includes(currentText, "▍")
    \/ includes(currentText, "Claude is typing")
    \/ includes(currentText, "Thinking")

\* StableReturn that accepts one confirmation fewer
StableReturn_OffByOne(stableCount, currentText) ==
    stableCount >= requiredStableChecks - 1 /\ ~HasTypingIndicator(currentText)

\* StableReturn that does not look for typing indicators
StableReturn_IgnoresIndicator(stableCount, currentText) ==
    stableCount >= requiredStableChecks

\* the condition of `return response` in the stable branch
StableReturn(stableCount, currentText) ==
    stableCount >= requiredStableChecks /\ ~HasTypingIndicator(currentText)

\* afterLoop that forgets the last captured response
afterLoop_AlwaysSentinel(p, exit) ==
    [p EXCEPT !.pc = "done", !.exit = exit, !.result = UnableToRead(p.originalPrompt)]

\* afterLoop without the fallback text
afterLoop_NoFallback(p, exit) ==
    [p EXCEPT !.pc = "done", !.exit = exit, !.result = p.lastResponseText]

\* the statements after the while loop
afterLoop(p, exit) ==
    [p EXCEPT !.pc = "done", !.exit = exit,
              !.result = IF p.lastResponseText # "" THEN p.lastResponseText
                         ELSE UnableToRead(p.originalPrompt)]

\* nextStableCount that does not count an unchanged response
nextStableCount_NoIncrement(p, response, currentText) ==
    IF HasTypingIndicator(currentText) THEN 0
    ELSE IF Truthy(response) /\ response.text # p.lastResponseText THEN 0
    ELSE p.stableCount

\* nextStableCount without the reset on typing indicators
nextStableCount_NoIndicatorReset(p, response, currentText) ==
    IF Truthy(response) /\ response.text # p.lastResponseText THEN 0
    ELSE IF Truthy(response) THEN p.stableCount + 1
    ELSE p.stableCount

\* stableCount after the two if statements of a tick that does not return
nextStableCount(p, response, currentText) ==
    IF HasTypingIndicator(currentText) THEN 0
    ELSE IF Truthy(response) /\ response.text # p.lastResponseText THEN 0
    ELSE IF Truthy(response) THEN p.stableCount + 1
    ELSE p.stableCount

\* the history of the session after a sample returned currentText at time t
observe(p, response, currentText, t) ==
    LET candidate == ~response.null /\ ~HasTypingIndicator(currentText)
        same == p.sameRun > 0 /\ response.text = p.lastResponseText
    IN  [p EXCEPT !.currentText = currentText,
                  !.allTyping = @ /\ HasTypingIndicator(currentText),
                  !.repeated = Truthy(response) /\ response.text = p.lastResponseText,
                  !.threw = FALSE,
                  !.seen = IF ~Truthy(response) THEN @
                           ELSE IF response.text = p.lastResponseText THEN @ + 1
                           ELSE 1,
                  !.sameRun = IF ~candidate THEN 0 ELSE IF same THEN @ + 1 ELSE 1,
                  !.runSince = IF ~candidate THEN 0 ELSE IF same THEN @ ELSE t]

\* the body of the try block once runAppleScript has returned currentText at time t
tick(p, currentText, t) ==
    LET response == extractClaudeResponse(currentText, p.originalPrompt)
        q == observe(p, response, currentText, t)
    IN  IF /\ Truthy(response)
           /\ response.text = p.lastResponseText
           /\ StableReturn(p.stableCount + 1, currentText)
        THEN [q EXCEPT !.pc = "done", !.exit = "stable", !.result = response.text,
                       !.stableCount = @ + 1]
        ELSE [q EXCEPT !.pc = "sleep",
                       !.lastResponseText = IF Truthy(response) THEN response.text ELSE @,
                       !.stableCount = nextStableCount(p, response, currentText)]

\* catchPoll that starts the count of confirmations again
catchPoll_ResetsCount(p, error) ==
    [p EXCEPT !.pc = "sleep", !.currentText = "", !.sameRun = 0, !.runSince = 0,
              !.repeated = FALSE, !.threw = TRUE, !.stableCount = 0]

\* catch (error) { if (error.message?.includes('Claude process not found')) break }
catchPoll(p, error) ==
    LET q == [p EXCEPT !.currentText = "", !.sameRun = 0, !.runSince = 0,
                       !.repeated = FALSE, !.threw = TRUE]
    IN  IF includes(error.message, "Claude process not found")
        THEN afterLoop(q, "abort")
        ELSE [q EXCEPT !.pc = "sleep"]

\* while (Date.now() - startTime < options.timeout)
whileCondition(p, t) == t - p.startTime < p.timeout


(***************************************************************************)
(* The system clipboard and the scripts that read and write it.  The       *)
(* clipboard holds a text or something that is not a text (an image).      *)
(***************************************************************************)
TextClip(text) == [isText |-> TRUE, text |-> text]

ImageClip == [isText |-> FALSE, text |-> ""]

\* const saveClipboardScript (one statement per line in the source)
SaveClipboardScript ==
    "try set savedClipboard to the clipboard as string return savedClipboard on error return \"\" end try"

\* the statement that writes the clipboard, up to the opening quote
SetClipboardTo == "set the clipboard to \""

\* the paste that follows the clipboard write in the submit script
PasteKeystroke == "keystroke \"v\" using {command down}"

\* the head of the statement that selects the conversation
ClickButton == "click button \""

\* `set the clipboard to "${escapedOriginalClipboard}"`
RestoreClipboardScript(escapedOriginalClipboard) ==
    SetClipboardTo \o escapedOriginalClipboard \o "\""

\* const script of askClaude: the statements that depend on the arguments or
\* act on the clipboard and the input field, in the order of the source
SubmitScript(escapedPrompt, conversationId) ==
    "tell application \"Claude\" activate tell application \"System Events\" tell process \"Claude\" try "
    \o (IF conversationId # ""
        THEN "try " \o ClickButton \o conversationId
                 \o "\" of group 1 of group 1 of window 1 end try "
        ELSE "keystroke \"n\" using command down ")
    \o SetClipboardTo \o escapedPrompt \o "\" "
    \o PasteKeystroke \o " key code 36 return \"Success\""

\* the character an escape sequence of an AppleScript string literal stands for
escapedChar(c) ==
    IF c = "n" THEN "\n" ELSE IF c = "r" THEN "\r" ELSE IF c = "t" THEN "\t" ELSE c

\* the value of the string literal of `script` whose first character is at
\* the 1-based index i (the literal ends at the first unescaped quote)
RECURSIVE stringLiteral(_, _)
stringLiteral(script, i) ==
    IF i > Len(script) \/ charAt(script, i) = "\"" THEN ""
    ELSE IF charAt(script, i) = "\\" /\ i < Len(script)
    THEN escapedChar(charAt(script, i + 1)) \o stringLiteral(script, i + 2)
    ELSE charAt(script, i) \o stringLiteral(script, i + 1)

\* the clipboard once the script has run to its end
clipboardAfter(script, clip) ==
    LET at == indexOf(script, SetClipboardTo)
    IN  IF at = -1 THEN clip
        ELSE TextClip(stringLiteral(script, at + Len(SetClipboardTo) + 1))

\* the clipboard when the script raised an error: before its clipboard write,
\* or in a statement that follows it
ClipboardsOfFailed(script, clip) ==
    IF includes(script, PasteKeystroke)
    THEN {clip, clipboardAfter(script, clip)}
    ELSE {clip}

\* the clipboard when the caller stopped waiting for the script, which may or
\* may not have reached its clipboard write
ClipboardsOfInterrupted(script, clip) == {clip, clipboardAfter(script, clip)}

(***************************************************************************)
(* ErrorHandler.withRetry(operation, options) (utils/error-handler.ts).    *)
(* retry.pc is the await the activation is suspended at:                   *)
(*   "idle"       no activation                                            *)
(*   "operation"  await operation()                                        *)
(*   "delay"      await setTimeout(delay)                                  *)
(*   "resolved"   resolved with retry.result                               *)
(*   "rejected"   rejected with retry.error                                *)
(* retry.shouldRetry names the option: "default" (absent), "never"         *)
(* (() => false, as askClaude passes) or "always"; retry.onRetry tells     *)
(* that the option is present.  History: retry.invocations counts the      *)
(* calls of operation, retry.outcomes holds what each call did (NoError    *)
(* for a call that resolved), retry.onRetryCalls the arguments of the      *)
(* calls of onRetry and retry.delays the delays waited.                    *)
(***************************************************************************)
IdleRetry ==
    [pc |-> "idle", maxAttempts |-> 0, retryDelay |-> 0, backoffMultiplier |-> 0,
     shouldRetry |-> "", onRetry |-> FALSE, attempt |-> 0, lastError |-> Undefined,
     delay |-> 0, result |-> "", error |-> NoError,
     invocations |-> 0, outcomes |-> <<>>, onRetryCalls |-> <<>>, delays |-> <<>>]

\* Math.pow(base, exponent) for a natural exponent
RECURSIVE pow(_, _)
pow(base, exponent) == IF exponent = 0 THEN 1 ELSE base * pow(base, exponent - 1)

\* isNonRetryableError that takes every error for retryable
isNonRetryableError_Never(error) == FALSE

\* isNonRetryableError(error)
isNonRetryableError(error) ==
    IF ~isKnownError(error) THEN FALSE
    ELSE IF error.name = "ValidationError" THEN TRUE
    ELSE IF error.code = "APPLESCRIPT_PERMISSION_DENIED" THEN TRUE
    ELSE IF error.code = "CLAUDE_NOT_RUNNING" THEN TRUE
    ELSE FALSE

\* shouldRetry(error, attempt): the option, or its default
shouldRetry(r, error) ==
    CASE r.shouldRetry = "default" -> ~isNonRetryableError(error)
      [] r.shouldRetry = "never"   -> FALSE
      [] r.shouldRetry = "always"  -> TRUE

\* the head of the for loop: the next call of operation, or throw lastError
retryLoop(r) ==
    IF r.attempt <= r.maxAttempts
    THEN [r EXCEPT !.pc = "operation", !.invocations = @ + 1]
    ELSE [r EXCEPT !.pc = "rejected", !.error = r.lastError]

\* retryCatch that gives up at the first failure
retryCatch_GivesUp(r, error) ==
    [r EXCEPT !.outcomes = Append(@, error), !.lastError = error,
              !.pc = "rejected", !.error = error]

\* retryCatch that does not call onRetry
retryCatch_NoOnRetry(r, error) ==
    LET q == [r EXCEPT !.outcomes = Append(@, error), !.lastError = error]
    IN  IF r.attempt = r.maxAttempts \/ ~shouldRetry(r, error)
        THEN [q EXCEPT !.pc = "rejected", !.error = error]
        ELSE [q EXCEPT !.pc = "delay",
                       !.delay = r.retryDelay * pow(r.backoffMultiplier, r.attempt - 1)]

\* the catch block, up to the await of the delay
retryCatch(r, error) ==
    LET q == [r EXCEPT !.outcomes = Append(@, error), !.lastError = error]
    IN  IF r.attempt = r.maxAttempts \/ ~shouldRetry(r, error)
        THEN [q EXCEPT !.pc = "rejected", !.error = error]
        ELSE [q EXCEPT !.pc = "delay",
                       !.delay = r.retryDelay * pow(r.backoffMultiplier, r.attempt - 1),
                       !.onRetryCalls =
                           IF r.onRetry
                           THEN Append(@, [error |-> error, attempt |-> r.attempt])
                           ELSE @]

\* the call: the options, then the first iteration up to the call of operation
withRetry(maxAttempts, retryDelay, backoffMultiplier, policy, onRetry) ==
    retryLoop([IdleRetry EXCEPT !.maxAttempts = maxAttempts, !.retryDelay = retryDelay,
                                !.backoffMultiplier = backoffMultiplier,
                                !.shouldRetry = policy, !.onRetry = onRetry,
                                !.attempt = 1])

(***************************************************************************)
(* askClaude(prompt, conversationId, pollingOptions).                      *)
(* ask.pc is the await the activation is suspended at:                     *)
(*   "idle"      no activation         "start"  called, not yet run        *)
(*   "save"      await runAppleScript(saveClipboardScript)                 *)
(*   "submit"    await ErrorHandler.withRetry(() => runAppleScript(script))*)
(*   "settle"    await setTimeout(config.claude.responseStartDelay)        *)
(*   "poll"      await pollForClaudeResponse(...)                          *)
(*   "restore"   await runAppleScript(restore) of the try block            *)
(*   "recover"   await runAppleScript(restore) of the catch block          *)
(*   "returned"  resolved with ask.result                                  *)
(*   "thrown"    rejected with ask.error                                   *)
(* An absent conversationId is "".  History: ask.clipboardAtStart is the   *)
(* clipboard at the call, ask.invocations the calls of runAppleScript made *)
(* by askClaude itself, ask.caught the error caught by the catch block,    *)
(* ask.saveFailed that the clipboard read threw, ask.restoreFailed that    *)
(* the clipboard restore threw, ask.submittedAt the time the submit script *)
(* returned (NotYet before), ask.sampled that the poller it called started *)
(* a sampling script.                                                      *)
(***************************************************************************)
IdleAsk ==
    [pc |-> "idle", prompt |-> "", conversationId |-> "", timeout |-> 0,
     escapedPrompt |-> "", originalClipboard |-> "", escapedOriginalClipboard |-> "",
     script |-> "", response |-> "", result |-> "", error |-> NoError,
     caught |-> NoError, clipboardAtStart |-> TextClip(""), invocations |-> 0,
     saveFailed |-> FALSE, restoreFailed |-> FALSE, submittedAt |-> NotYet,
     sampled |-> FALSE, submitExecs |-> 0]

\* askValidation that does not trim the prompt
askValidation_NoTrim(prompt, conversationId) ==
    IF prompt = ""
    THEN ValidationError("Prompt cannot be empty", "prompt")
    ELSE IF Len(prompt) > maxPromptLength
    THEN ValidationError("Prompt too long (" \o ToString(Len(prompt)) \o " chars, max "
                             \o ToString(maxPromptLength) \o ")", "prompt")
    ELSE IF conversationId # "" /\ Len(conversationId) > maxConversationIdLength
    THEN ValidationError("Conversation ID too long (max "
                             \o ToString(maxConversationIdLength) \o " chars)",
                         "conversationId")
    ELSE NoError

\* the ValidationError thrown by the checks at the head of askClaude, if any
askValidation(prompt, conversationId) ==
    IF prompt = "" \/ Len(trim(prompt)) = 0
    THEN ValidationError("Prompt cannot be empty", "prompt")
    ELSE IF Len(prompt) > maxPromptLength
    THEN ValidationError("Prompt too long (" \o ToString(Len(prompt)) \o " chars, max "
                             \o ToString(maxPromptLength) \o ")", "prompt")
    ELSE IF conversationId # "" /\ Len(conversationId) > maxConversationIdLength
    THEN ValidationError("Conversation ID too long (max "
                             \o ToString(maxConversationIdLength) \o " chars)",
                         "conversationId")
    ELSE NoError

\* convertError that looks at the message only
convertError_MessageOnly(error) ==
    IF includes(error.message, "Claude Desktop is not running")
    THEN ClaudeDesktopError("Claude Desktop is not running", "CLAUDE_NOT_RUNNING")
    ELSE IF includes(error.message, "No Claude window available")
    THEN ClaudeDesktopError("No Claude window found", "CLAUDE_WINDOW_NOT_FOUND")
    ELSE error

\* the conversion of the caught error at the end of the catch block
convertError(error) ==
    IF \/ error.appleScriptErrorNumber = 1001
       \/ includes(error.message, "Claude Desktop is not running")
    THEN ClaudeDesktopError("Claude Desktop is not running", "CLAUDE_NOT_RUNNING")
    ELSE IF \/ error.appleScriptErrorNumber = 1002
            \/ includes(error.message, "No Claude window available")
    THEN ClaudeDesktopError("No Claude window found", "CLAUDE_WINDOW_NOT_FOUND")
    ELSE error

\* askClaude is rejected with error
askThrows(a, error) == [a EXCEPT !.pc = "thrown", !.error = error]

\* ErrorHandler.withRetry(..., {maxAttempts: 1, shouldRetry: () => false}),
\* up to its call of the operation
SubmitRetry == withRetry(1, BackoffDelay, BackoffMultiplier, "never", FALSE)

\* afterSave that leaves the retries of the submit script to their default
afterSave_DefaultRetries(a, originalClipboard) ==
    IF originalClipboard # "" /\ escapeFailure(originalClipboard) # NoError
    THEN /\ ask' = askThrows([a EXCEPT !.originalClipboard = originalClipboard],
                             escapeFailure(originalClipboard))
         /\ run' = IdleRun
         /\ retry' = retry
    ELSE LET escaped == IF originalClipboard # ""
                        THEN escapeAppleScriptString(originalClipboard) ELSE ""
             script == SubmitScript(a.escapedPrompt, a.conversationId)
         IN  /\ ask' = [a EXCEPT !.pc = "submit",
                                 !.originalClipboard = originalClipboard,
                                 !.escapedOriginalClipboard = escaped,
                                 !.script = script,
                                 !.invocations = @ + 1]
             /\ run' = runAppleScript(script, DefaultRetries)
             /\ retry' = SubmitRetry

\* askClaude from line 92 on, once the clipboard read gave originalClipboard:
\* the escaped copy, the submit script, and the call that runs it once
afterSave(a, originalClipboard) ==
    IF originalClipboard # "" /\ escapeFailure(originalClipboard) # NoError
    THEN /\ ask' = askThrows([a EXCEPT !.originalClipboard = originalClipboard],
                             escapeFailure(originalClipboard))
         /\ run' = IdleRun
         /\ retry' = retry
    ELSE LET escaped == IF originalClipboard # ""
                        THEN escapeAppleScriptString(originalClipboard) ELSE ""
             script == SubmitScript(a.escapedPrompt, a.conversationId)
         IN  /\ ask' = [a EXCEPT !.pc = "submit",
                                 !.originalClipboard = originalClipboard,
                                 !.escapedOriginalClipboard = escaped,
                                 !.script = script,
                                 !.invocations = @ + 1]
             /\ run' = runAppleScript(script, 1)
             /\ retry' = SubmitRetry


(***************************************************************************)
(* The environment: the scripts callers pass, what a script execution      *)
(* prints, and the errors the script engine rejects with.                  *)
(***************************************************************************)
Prompts == {"what is the answer"}

\* what the front window of the target application may show
WindowTexts(prompt) ==
    {"",
     prompt,
     prompt \o "\n\nHello",
     prompt \o "\n\nHello! 42",
     prompt \o "\r\n\r\nHello! 42\n\nCopy\n\nClaude can make mistakes\n",
     prompt \o "\n\nHello! 42\n\n▍",
     prompt \o "\n\nThinking",
     "Claude is typing",
     "Claude\n\nNo content added yet",
     ProcessNotFound,
     NoWindow,
     ErrorReadingWindow \o "Invalid index.",
     ErrorReadingWindow \o "System Events got an error: Can't get front window of process \"Claude\"."}

\* the values of the environment variable SKIP_CLAUDE_POLLING ("": unset)
SkipValues == {"", "true", "1"}

\* the pieces the raw texts given to extractClaudeResponse are made of
Segments ==
    Prompts \cup
    {"Hello! 42", "\r\n\n", "Copy", "No content added yet", "Error: ",
     "Claude can make mistakes. Please double-check responses.",
     "The answer to the ultimate question of life, the universe and everything."}

\* the concatenations of at most n segments
RECURSIVE RawTexts(_)
RawTexts(n) ==
    IF n = 0 THEN {""}
    ELSE RawTexts(n - 1) \cup {t \o s : t \in RawTexts(n - 1), s \in Segments}

\* the prompts askClaude is called with
AskPrompts == Prompts \cup {"", " \n ", repeat("p", maxPromptLength + 1)}

\* the conversation ids askClaude is called with ("": none)
ConversationIds == {"", "Chat \"A\"", repeat("c", maxConversationIdLength + 1)}

\* what the clipboard may hold when askClaude is called
Clipboards ==
    {TextClip(""), TextClip("old \"clip\""), TextClip("  padded \n"),
     TextClip(repeat("x", MaxStringLength + 1)), ImageClip}

\* the calls of askClaude: a usual call, and the calls that differ from it
\* in the prompt, in the conversation id, in the clipboard they find, or in
\* the environment variable
AskCalls ==
    LET usual == [prompt |-> CHOOSE p \in Prompts : TRUE, conversationId |-> "",
                  clipboard |-> TextClip("old \"clip\""), skip |-> ""]
    IN  {[usual EXCEPT !.prompt = p] : p \in AskPrompts}
        \cup {[usual EXCEPT !.conversationId = c] : c \in ConversationIds}
        \cup {[usual EXCEPT !.clipboard = c] : c \in Clipboards}
        \cup {[usual EXCEPT !.skip = "true"]}

\* what the front window may show once askClaude has submitted the prompt
AskWindowTexts(prompt) ==
    {prompt \o "\n\nHello! 42", ProcessNotFound}

\* the scripts runAppleScript is called with on its own
Scripts ==
    {"", " \n\t ", "return \"Success\"",
     repeat("-", MaxScriptLength), repeat("-", MaxScriptLength + 1)}

\* the script of getConversations (only its first statements are kept)
ConversationsScript ==
    "tell application \"Claude\" activate delay 1 tell application \"System Events\" tell process \"Claude\" if not (exists window 1) then"

NoConversationsFound == "No conversations found"

\* `[Code Review ID: ${reviewId}]`
ReviewMarker(reviewId) == "[Code Review ID: " \o reviewId \o "]"

\* the head of the script of sendToClaudeDesktop
SendReviewHead == "tell application \"Claude\" activate delay 0.5"

\* the head of the script of checkClaudeDesktopResponse
CheckReviewHead ==
    "tell application \"Claude\" tell application \"System Events\" tell process \"Claude\" set allText to \"\""

\* the value of the UI element that holds the marker of the review, when
\* there is one: the request alone, a short reply, a reply
ReviewWindowTexts(reviewId) ==
    {"",
     ReviewMarker(reviewId) \o "\n\n[CODE REVIEW REQUEST]\n\nYou are a senior software engineer\n",
     ReviewMarker(reviewId) \o " Assistant: Code looks good!\n",
     ReviewMarker(reviewId) \o "\n\n[CODE REVIEW REQUEST]\n\nclaude: The function adds two numbers and returns the sum; consider validating both arguments.\n"}

\* what an execution of the script may print
ScriptOutputs(script) ==
    IF script = SampleScript
    THEN IF ask.pc = "idle"
         THEN UNION {WindowTexts(prompt) : prompt \in Prompts}
         ELSE AskWindowTexts(ask.prompt)
    ELSE IF script = SaveClipboardScript
    THEN {IF clipboard.isText THEN clipboard.text ELSE ""}
    ELSE IF startsWith(script, SetClipboardTo)
    THEN {""}
    ELSE IF startsWith(script, SendReviewHead)
    THEN {""}
    ELSE IF startsWith(script, CheckReviewHead)
    THEN ReviewWindowTexts(review.reviewId)
    ELSE IF script = ConversationsScript
    THEN {NoConversationsFound \o "\n", "Project notes, Trip plan\n", "\n"}
    ELSE {"Success\n"}

\* the errors runAppleScriptLib(script) may reject with
LibErrors ==
    {Error("execution error: Claude got an error: Application isn't running. (-600)", "1"),
     Error("execution error: Failed to interact with Claude: Claude Desktop is not running (1001)", "1"),
     Error("execution error: System Events got an error: osascript is not allowed to send keystrokes. (1002)", "1"),
     Error("execution error: Claude process not found (0)", "1"),
     Error("spawn osascript", "ETIMEDOUT"),
     Error("execution error: timeout, osascript is not allowed to send keystrokes.", "")}

\* reject(new Error('AppleScript execution timeout')) of the timeoutPromise
TimeoutError == Error("AppleScript execution timeout", "")

(***************************************************************************)
(* Steps of runAppleScript.                                                *)
(***************************************************************************)
\* a caller calls runAppleScript(script, {retries})
CallRunAppleScript ==
    /\ run.pc = "idle"
    /\ poll.pc = "idle"
    /\ ask.pc = "idle"
    /\ \E script \in Scripts, retries \in 0..MaxRetries :
           run' = runAppleScript(script, retries)
    /\ UNCHANGED <<now, poll, ask, clipboard, abandoned, ext,
                   retry, logger, handled, tool, review,
                   config, reviews, pendingReviews>>

\* runAppleScriptLib(script) resolves before the timeout: return result.trim()
ExecSucceeds ==
    /\ run.pc = "exec"
    /\ \E stdout \in ScriptOutputs(run.script), d \in 0..(ScriptTimeout - 1) :
           /\ run' = [run EXCEPT !.pc = "returned", !.stdout = stdout,
                                 !.result = trim(stdout)]
           /\ now' = now + d
    /\ clipboard' = clipboardAfter(run.script, clipboard)
    /\ UNCHANGED <<poll, ask, abandoned, ext,
                   retry, logger, handled, tool, review,
                   config, reviews, pendingReviews>>

\* runAppleScriptLib(script) rejects before the timeout: the catch block
ExecFails ==
    /\ run.pc = "exec"
    /\ \E error \in LibErrors, d \in 0..(ScriptTimeout - 1) :
           /\ run' = catchBlock(run, error)
           /\ now' = now + d
    /\ clipboard' \in ClipboardsOfInterrupted(run.script, clipboard)
    /\ UNCHANGED <<poll, ask, abandoned, ext,
                   retry, logger, handled, tool, review,
                   config, reviews, pendingReviews>>

\* the timeoutPromise rejects first: the catch block.  Nothing stops the
\* execution started by runAppleScriptLib(script), which goes on running.
ExecTimesOut ==
    /\ run.pc = "exec"
    /\ run' = catchBlock(run, TimeoutError)
    /\ now' = now + ScriptTimeout
    /\ abandoned' = TRUE
    /\ clipboard' \in ClipboardsOfInterrupted(run.script, clipboard)
    /\ UNCHANGED <<poll, ask, ext,
                   retry, logger, handled, tool, review,
                   config, reviews, pendingReviews>>

\* the executions that lost the timeout race have all ended
AbandonedExecEnds ==
    /\ abandoned
    /\ abandoned' = FALSE
    /\ UNCHANGED <<now, run, poll, ask, clipboard, ext,
                   retry, logger, handled, tool, review,
                   config, reviews, pendingReviews>>

\* RetryDelayElapsed with a delay that grows with the attempt number
RetryDelayElapsed_Backoff ==
    /\ run.pc = "delay"
    /\ run' = forLoop([run EXCEPT !.attempt = @ + 1, !.delays = @ + 1])
    /\ now' = now + RetryDelay * run.attempt
    /\ UNCHANGED <<poll, ask, clipboard, abandoned, ext,
                   retry, logger, handled, tool, review,
                   config, reviews, pendingReviews>>

\* the retry delay has elapsed: attempt++ and the next iteration of the loop
RetryDelayElapsed ==
    /\ run.pc = "delay"
    /\ run' = forLoop([run EXCEPT !.attempt = @ + 1, !.delays = @ + 1])
    /\ now' = now + RetryDelay
    /\ UNCHANGED <<poll, ask, clipboard, abandoned, ext,
                   retry, logger, handled, tool, review,
                   config, reviews, pendingReviews>>

(***************************************************************************)
(* Steps of pollForClaudeResponse.                                         *)
(***************************************************************************)
\* the head of the while loop at time t: the next sample, or the final return
whileLoop(p, t) ==
    IF whileCondition(p, t)
    THEN /\ poll' = [p EXCEPT !.pc = "sample", !.sampled = TRUE]
         /\ run' = runAppleScript(SampleScript, DefaultRetries)
    ELSE /\ poll' = afterLoop(p, "timeout")
         /\ run' = IdleRun

\* the call: initialisation, the SKIP_CLAUDE_POLLING return, the first loop head
PollStart ==
    /\ poll.pc = "start"
    /\ LET p == [poll EXCEPT !.startTime = now, !.stableCount = 0,
                             !.lastResponseText = ""]
       IN  IF skipTest(poll.SKIP_CLAUDE_POLLING)
           THEN /\ poll' = [p EXCEPT !.pc = "done", !.exit = "skipped",
                                     !.result = SkippedMessage]
                /\ run' = IdleRun
           ELSE whileLoop(p, now)
    /\ UNCHANGED <<now, ask, clipboard, abandoned, ext,
                   retry, logger, handled, tool, review,
                   config, reviews, pendingReviews>>

\* the sampling script returned: the rest of the try block, up to the sleep
PollSampleReturned ==
    /\ poll.pc = "sample"
    /\ run.pc = "returned"
    /\ poll' = tick(poll, run.result, now)
    /\ run' = IdleRun
    /\ UNCHANGED <<now, ask, clipboard, abandoned, ext,
                   retry, logger, handled, tool, review,
                   config, reviews, pendingReviews>>

\* the sampling script threw: the catch block, up to the sleep or the break
PollSampleThrown ==
    /\ poll.pc = "sample"
    /\ run.pc = "thrown"
    /\ poll' = catchPoll(poll, run.error)
    /\ run' = IdleRun
    /\ UNCHANGED <<now, ask, clipboard, abandoned, ext,
                   retry, logger, handled, tool, review,
                   config, reviews, pendingReviews>>

\* the sleep of options.interval is over: the next loop head
PollWake ==
    /\ poll.pc = "sleep"
    /\ now' = now + PollInterval
    /\ whileLoop(poll, now + PollInterval)
    /\ UNCHANGED <<ask, clipboard, abandoned, ext,
                   retry, logger, handled, tool, review,
                   config, reviews, pendingReviews>>

(***************************************************************************)
(* Steps of askClaude.                                                     *)
(***************************************************************************)
\* the call: the validation, the escaped prompt, the clipboard read
AskStart ==
    /\ ask.pc = "start"
    /\ LET a == [ask EXCEPT !.clipboardAtStart = clipboard]
       IN  IF askValidation(ask.prompt, ask.conversationId) # NoError
           THEN /\ ask' = askThrows(a, askValidation(ask.prompt, ask.conversationId))
                /\ run' = IdleRun
           ELSE IF escapeFailure(ask.prompt) # NoError
           THEN /\ ask' = askThrows(a, escapeFailure(ask.prompt))
                /\ run' = IdleRun
           ELSE /\ ask' = [a EXCEPT !.pc = "save",
                                    !.escapedPrompt = escapeAppleScriptString(ask.prompt),
                                    !.invocations = @ + 1]
                /\ run' = runAppleScript(SaveClipboardScript, DefaultRetries)
    /\ UNCHANGED <<now, poll, clipboard, abandoned, ext,
                   retry, logger, handled, tool, review,
                   config, reviews, pendingReviews>>

\* the clipboard read returned: originalClipboard, then the submit script
AskSaveReturned ==
    /\ ask.pc = "save"
    /\ run.pc = "returned"
    /\ afterSave(ask, run.result)
    /\ UNCHANGED <<now, poll, clipboard, abandoned, ext,
                   logger, handled, tool, review,
                   config, reviews, pendingReviews>>

\* the clipboard read threw: originalClipboard = '', then the submit script
AskSaveThrown ==
    /\ ask.pc = "save"
    /\ run.pc = "thrown"
    /\ afterSave([ask EXCEPT !.saveFailed = TRUE], "")
    /\ UNCHANGED <<now, poll, clipboard, abandoned, ext,
                   logger, handled, tool, review,
                   config, reviews, pendingReviews>>

\* the submit script returned: withRetry returns its result, the settle
\* delay starts
AskSubmitReturned ==
    /\ ask.pc = "submit"
    /\ run.pc = "returned"
    /\ ask' = [ask EXCEPT !.pc = "settle", !.submittedAt = now,
                          !.submitExecs = @ + run.execs]
    /\ run' = IdleRun
    /\ retry' = [retry EXCEPT !.pc = "resolved", !.result = run.result,
                              !.outcomes = Append(@, NoError)]
    /\ UNCHANGED <<now, poll, clipboard, abandoned, ext,
                   logger, handled, tool, review,
                   config, reviews, pendingReviews>>

\* the end of the catch block: the conversion of the caught error
askRethrow(a) == askThrows(a, convertError(a.caught))

\* the submit script threw: the catch block of withRetry, which rethrows
\* (or waits and calls the operation again, were it to retry); then the
\* catch block of askClaude restores the clipboard when one was saved, and
\* converts the error
AskSubmitThrown ==
    /\ ask.pc = "submit"
    /\ run.pc = "thrown"
    /\ LET a == [ask EXCEPT !.caught = run.error, !.submitExecs = @ + run.execs]
           r == retryCatch(retry, run.error)
       IN  IF r.pc = "delay"
           THEN /\ now' = now + r.delay
                /\ retry' = retryLoop([r EXCEPT !.attempt = @ + 1,
                                                !.delays = Append(@, r.delay)])
                /\ ask' = [a EXCEPT !.caught = ask.caught, !.invocations = @ + 1]
                /\ run' = runAppleScript(ask.script, 1)
           ELSE /\ now' = now
                /\ retry' = r
                /\ IF ask.originalClipboard # ""
                   THEN /\ ask' = [a EXCEPT !.pc = "recover", !.invocations = @ + 1]
                        /\ run' = runAppleScript(
                                      RestoreClipboardScript(ask.escapedOriginalClipboard),
                                      DefaultRetries)
                   ELSE /\ ask' = askRethrow(a)
                        /\ run' = IdleRun
    /\ UNCHANGED <<poll, clipboard, abandoned, ext,
                   logger, handled, tool, review,
                   config, reviews, pendingReviews>>

\* AskSettled that does not wait
AskSettled_NoDelay ==
    /\ ask.pc = "settle"
    /\ ask' = [ask EXCEPT !.pc = "poll"]
    /\ poll' = [poll EXCEPT !.pc = "start", !.originalPrompt = ask.prompt,
                            !.timeout = ask.timeout]
    /\ UNCHANGED <<now, run, clipboard, abandoned, ext,
                   retry, logger, handled, tool, review,
                   config, reviews, pendingReviews>>

\* the settle delay is over: pollForClaudeResponse is called
AskSettled ==
    /\ ask.pc = "settle"
    /\ now' = now + ResponseStartDelay
    /\ ask' = [ask EXCEPT !.pc = "poll"]
    /\ poll' = [poll EXCEPT !.pc = "start", !.originalPrompt = ask.prompt,
                            !.timeout = ask.timeout]
    /\ UNCHANGED <<run, clipboard, abandoned, ext,
                   retry, logger, handled, tool, review,
                   config, reviews, pendingReviews>>

\* pollForClaudeResponse returned (its activation is over): the clipboard
\* restore, or the return
AskPollReturned ==
    /\ ask.pc = "poll"
    /\ poll.pc = "done"
    /\ LET a == [ask EXCEPT !.response = poll.result, !.sampled = poll.sampled]
       IN  IF ask.originalClipboard # ""
           THEN /\ ask' = [a EXCEPT !.pc = "restore", !.invocations = @ + 1]
                /\ run' = runAppleScript(
                              RestoreClipboardScript(ask.escapedOriginalClipboard),
                              DefaultRetries)
           ELSE /\ ask' = [a EXCEPT !.pc = "returned", !.result = poll.result]
                /\ run' = IdleRun
    /\ poll' = [IdlePoll EXCEPT !.SKIP_CLAUDE_POLLING = poll.SKIP_CLAUDE_POLLING]
    /\ UNCHANGED <<now, clipboard, abandoned, ext,
                   retry, logger, handled, tool, review,
                   config, reviews, pendingReviews>>

\* the restore of the try block returned or threw: return response
AskRestoreDone ==
    /\ ask.pc = "restore"
    /\ run.pc \in {"returned", "thrown"}
    /\ ask' = [ask EXCEPT !.pc = "returned", !.result = ask.response,
                          !.restoreFailed = (run.pc = "thrown")]
    /\ run' = IdleRun
    /\ UNCHANGED <<now, poll, clipboard, abandoned, ext,
                   retry, logger, handled, tool, review,
                   config, reviews, pendingReviews>>

\* the restore of the catch block returned or threw: the conversion
AskRecoverDone ==
    /\ ask.pc = "recover"
    /\ run.pc \in {"returned", "thrown"}
    /\ ask' = askRethrow([ask EXCEPT !.restoreFailed = (run.pc = "thrown")])
    /\ run' = IdleRun
    /\ UNCHANGED <<now, poll, clipboard, abandoned, ext,
                   retry, logger, handled, tool, review,
                   config, reviews, pendingReviews>>

(***************************************************************************)
(* extractClaudeResponse applied on its own.                               *)
(***************************************************************************)
Extract ==
    /\ ext.pc = "called"
    /\ ext' = [ext EXCEPT !.pc = "returned",
                          !.result = extractClaudeResponse(ext.fullText, ext.prompt)]
    /\ UNCHANGED <<now, run, poll, ask, clipboard, abandoned,
                   retry, logger, handled, tool, review,
                   config, reviews, pendingReviews>>

(***************************************************************************)
(* Logger (utils/logger.ts).  logger.level is the level of the instance    *)
(* that the module variable `logger` holds and logger.stderr the lines     *)
(* written to process.stderr.  History: logger.called is the method of the *)
(* latest call ("" before the first one) and logger.before the number of   *)
(* lines that stderr held when it was made.  The calls that the script     *)
(* runner, the poller and askClaude make are not part of the model.        *)
(***************************************************************************)
\* enum LogLevel
LogLevel == [ERROR |-> 0, WARN |-> 1, INFO |-> 2, DEBUG |-> 3]

\* the severity and the tag of each method of Logger
Methods == {"error", "warn", "info", "debug"}

severityOf(method) ==
    CASE method = "error" -> LogLevel.ERROR
      [] method = "warn"  -> LogLevel.WARN
      [] method = "info"  -> LogLevel.INFO
      [] method = "debug" -> LogLevel.DEBUG

tagOf(method) ==
    CASE method = "error" -> "[ERROR]"
      [] method = "warn"  -> "[WARN]"
      [] method = "info"  -> "[INFO]"
      [] method = "debug" -> "[DEBUG]"

\* new Logger(level)
Logger(level) == [level |-> level, stderr |-> <<>>, called |-> "", before |-> 0]

\* the logger of the module before the configuration is loaded (LOG_LEVEL unset)
DefaultLogger == Logger(LogLevel.INFO)

\* args.map(a => ...).join(' ') of arguments that are already strings
RECURSIVE join(_)
join(args) ==
    IF args = <<>> THEN ""
    ELSE IF Len(args) = 1 THEN args[1]
    ELSE args[1] \o " " \o join(Tail(args))

\* `[TAG] ${message} ${args...}\n`
logLine(method, message, args) ==
    tagOf(method) \o " " \o message \o " " \o join(args) \o "\n"

\* levelTest that leaves out the messages of the level itself
levelTest_Strict(level, severity) == level > severity

\* if (this.level >= LogLevel.X)
levelTest(level, severity) == level >= severity

\* logger.error / warn / info / debug (message, ...args)
logCall(lg, method, message, args) ==
    LET l == [lg EXCEPT !.called = method, !.before = Len(lg.stderr)]
    IN  IF levelTest(lg.level, severityOf(method))
        THEN [l EXCEPT !.stderr = Append(@, logLine(method, message, args))]
        ELSE l

(***************************************************************************)
(* ErrorHandler.handle (utils/error-handler.ts) and the helpers of         *)
(* utils/errors.ts.  A thrown value is an error record; the values that    *)
(* are thrown without being instances of Error have a name of their own.   *)
(***************************************************************************)
\* getErrorMessage(error)
getErrorMessage(error) ==
    IF instanceofError(error) THEN error.message
    ELSE IF error.name = "string" THEN error.message
    ELSE IF error.name = "object" THEN error.message
    ELSE "Unknown error occurred"

\* JSON.stringify of a string
jsonString(s) ==
    "\"" \o replaceAll(replaceAll(replaceAll(s, "\\", "\\\\"), "\"", "\\\""), "\n", "\\n")
         \o "\""

\* JSON.stringify(error.toJSON()); timestamp, context and stack are left out
toJSON(error) ==
    "{\"name\":" \o jsonString(error.name) \o ",\"message\":" \o jsonString(error.message)
        \o ",\"code\":" \o jsonString(error.code) \o "}"

\* typeof a === 'object' ? JSON.stringify(a) : a, then join's rendering, of a
\* thrown value that is not a BaseError (an Error has no enumerable property
\* but the code that the rejecting library sets)
stringifyUnknown(error) ==
    IF error.name = "Error"
    THEN IF error.code = "" THEN "{}" ELSE "{\"code\":" \o jsonString(error.code) \o "}"
    ELSE IF error.name = "object" THEN "{\"message\":" \o jsonString(error.message) \o "}"
    ELSE IF error.name = "string" THEN error.message
    ELSE ""

\* a call of a method of logger
LogCall(method, message, args) == [method |-> method, message |-> message, args |-> args]

\* logError(error, context): the call of logger it makes
logError(error, context) ==
    IF isKnownError(error)
    THEN IF error.code \in {"VALIDATION_FAILED", "INVALID_INPUT", "MISSING_REQUIRED_FIELD"}
         THEN LogCall("warn", "Validation error in " \o context \o ":", <<toJSON(error)>>)
         ELSE IF error.code \in {"CLAUDE_NOT_RUNNING", "CLAUDE_WINDOW_NOT_FOUND"}
         THEN LogCall("info", "Claude Desktop not available in " \o context \o ":",
                      <<error.message>>)
         ELSE LogCall("error", "Error in " \o context \o ":", <<toJSON(error)>>)
    ELSE LogCall("error", "Unexpected error in " \o context \o ":",
                 <<stringifyUnknown(error)>>)

NotRunningText ==
    "Claude Desktop is not running. Please start Claude Desktop and try again."

PermissionText ==
    "Permission denied. Please grant accessibility permissions to Claude Desktop in System Preferences > Security & Privacy > Privacy > Accessibility."

\* getUserFriendlyMessage that gives every error the generic text
getUserFriendlyMessage_Generic(error, context) ==
    "Error in " \o context \o ": " \o getErrorMessage(error)

\* getUserFriendlyMessage(error, context)
getUserFriendlyMessage(error, context) ==
    IF error.name = "ValidationError"
    THEN "Invalid input" \o (IF error.field # "" THEN " for " \o error.field ELSE "")
             \o ": " \o error.message
    ELSE IF error.name = "AppleScriptError"
    THEN CASE error.code = "APPLESCRIPT_TIMEOUT" ->
                  "Operation timed out while " \o context \o ". Please try again."
           [] error.code = "APPLESCRIPT_PERMISSION_DENIED" -> PermissionText
           [] OTHER -> "AppleScript error: " \o error.message
    ELSE IF error.name = "ClaudeDesktopError"
    THEN CASE error.code = "CLAUDE_NOT_RUNNING" -> NotRunningText
           [] error.code = "CLAUDE_WINDOW_NOT_FOUND" ->
                  "No Claude Desktop window found. Please ensure Claude Desktop is open with at least one window."
           [] error.code = "CLAUDE_RESPONSE_TIMEOUT" ->
                  "Timed out waiting for Claude response. The message was sent but the response could not be captured."
           [] error.code = "CLAUDE_CONVERSATION_NOT_FOUND" ->
                  "Specified conversation not found. Please check the conversation ID."
           [] OTHER -> "Claude Desktop error: " \o error.message
    ELSE "Error in " \o context \o ": " \o getErrorMessage(error)

\* a ToolResponse / ErrorResponse
NoResponse == [content |-> <<>>, isError |-> FALSE]

TextResponse(text, isError) ==
    [content |-> <<[type |-> "text", text |-> text]>>, isError |-> isError]

\* ErrorHandler.handle(error, context): the response, the calls of logger it
\* made and the logger after them
handle(lg, error, context) ==
    LET call == logError(error, context)
    IN  [response |-> TextResponse(getUserFriendlyMessage(error, context), TRUE),
         calls |-> <<call>>,
         logger |-> logCall(lg, call.method, call.message, call.args)]

\* handled.pc is "idle" or "returned"; handled.calls are the calls of logger
\* that the latest call of handle made and handled.count the number of calls
\* of handle
IdleHandled ==
    [pc |-> "idle", error |-> NoError, context |-> "", response |-> NoResponse,
     calls |-> <<>>, count |-> 0]

(***************************************************************************)
(* Steps of the Logger and of ErrorHandler.handle called on its own.       *)
(***************************************************************************)
\* the levels a Logger is configured with: the enum, and the numbers next to it
LogLevels == (LogLevel.ERROR - 1)..(LogLevel.DEBUG + 1)

LogMessages == {"Test error"}

\* the errors handle is called with
HandleErrors ==
    {ValidationError("Invalid email", "email"),
     ValidationError("Invalid input", ""),
     AppleScriptError("AppleScript execution timed out", "APPLESCRIPT_TIMEOUT", "", ""),
     AppleScriptError("Permission denied", "APPLESCRIPT_PERMISSION_DENIED", "", ""),
     AppleScriptError("AppleScript execution failed", "APPLESCRIPT_EXECUTION_FAILED",
                      "execution error: \"Claude\" got an error (-1728)", "1"),
     AppleScriptError("Script too long", "INVALID_INPUT", "", ""),
     ClaudeDesktopError("Claude is not running", "CLAUDE_NOT_RUNNING"),
     ClaudeDesktopError("No Claude window found", "CLAUDE_WINDOW_NOT_FOUND"),
     ClaudeDesktopError("No reply", "CLAUDE_RESPONSE_TIMEOUT"),
     ClaudeDesktopError("No such conversation", "CLAUDE_CONVERSATION_NOT_FOUND"),
     ClaudeDesktopError("Failed to communicate with Claude Desktop", "UNKNOWN_ERROR"),
     SystemError("out of memory"),
     Error("Something went wrong", ""),
     StringValue("boom"),
     ObjectWithMessage("odd"),
     Undefined}

Contexts == {"ask", "test-context"}

\* configureLogger(level): logger = new Logger(level); stderr is the stream of
\* the process and keeps its lines
ConfigureLogger ==
    /\ \E level \in LogLevels :
           logger' = [Logger(level) EXCEPT !.stderr = logger.stderr]
    /\ UNCHANGED <<now, run, poll, ask, clipboard, abandoned, ext,
                   retry, handled, tool, review,
                   config, reviews, pendingReviews>>

\* logger.error / warn / info / debug (message), as the server and the tests call them
LoggerCall ==
    /\ Len(logger.stderr) < MaxLines
    /\ \E method \in Methods, message \in LogMessages :
           logger' = logCall(logger, method, message, <<>>)
    /\ UNCHANGED <<now, run, poll, ask, clipboard, abandoned, ext,
                   retry, handled, tool, review,
                   config, reviews, pendingReviews>>

\* ErrorHandler.handle(error, context)
Handle ==
    /\ Len(logger.stderr) < MaxLines
    /\ handled.count < MaxHandled
    /\ \E error \in HandleErrors, context \in Contexts :
           LET h == handle(logger, error, context)
           IN  /\ handled' = [pc |-> "returned", error |-> error, context |-> context,
                              response |-> h.response, calls |-> h.calls,
                              count |-> handled.count + 1]
               /\ logger' = h.logger
    /\ UNCHANGED <<now, run, poll, ask, clipboard, abandoned, ext,
                   retry, tool, review,
                   config, reviews, pendingReviews>>

(***************************************************************************)
(* Steps of ErrorHandler.withRetry.                                        *)
(***************************************************************************)
\* what the operation resolves with
OperationResults == {"Success"}

\* what the operation rejects with
OperationErrors ==
    {Error("Temporary failure", ""),
     ValidationError("Invalid input", ""),
     AppleScriptError("Permission denied", "APPLESCRIPT_PERMISSION_DENIED", "", ""),
     AppleScriptError("AppleScript execution failed", "APPLESCRIPT_EXECUTION_FAILED", "", ""),
     ClaudeDesktopError("Claude Desktop is not running", "CLAUDE_NOT_RUNNING"),
     ClaudeDesktopError("No Claude window found", "CLAUDE_WINDOW_NOT_FOUND")}

RetryPolicies == {"default", "never", "always"}

\* a caller calls ErrorHandler.withRetry(operation, options)
CallWithRetry ==
    /\ retry.pc = "idle"
    /\ \E maxAttempts \in 1..MaxAttempts, policy \in RetryPolicies, onRetry \in BOOLEAN :
           retry' = withRetry(maxAttempts, BackoffDelay, BackoffMultiplier, policy, onRetry)
    /\ UNCHANGED <<now, run, poll, ask, clipboard, abandoned, ext,
                   logger, handled, tool, review,
                   config, reviews, pendingReviews>>

\* a caller calls ErrorHandler.withRetry(operation, options) with any number
\* for maxAttempts
CallWithAnyMaxAttempts ==
    /\ retry.pc = "idle"
    /\ \E maxAttempts \in (1 - NonPositiveAttempts)..MaxAttempts, policy \in RetryPolicies :
           retry' = withRetry(maxAttempts, BackoffDelay, BackoffMultiplier, policy, FALSE)
    /\ UNCHANGED <<now, run, poll, ask, clipboard, abandoned, ext,
                   logger, handled, tool, review,
                   config, reviews, pendingReviews>>

\* operation() resolved: return its result
OperationResolves ==
    /\ retry.pc = "operation"
    /\ \E result \in OperationResults :
           retry' = [retry EXCEPT !.pc = "resolved", !.result = result,
                                  !.outcomes = Append(@, NoError)]
    /\ UNCHANGED <<now, run, poll, ask, clipboard, abandoned, ext,
                   logger, handled, tool, review,
                   config, reviews, pendingReviews>>

\* operation() rejected: the catch block
OperationRejects ==
    /\ retry.pc = "operation"
    /\ \E error \in OperationErrors : retry' = retryCatch(retry, error)
    /\ UNCHANGED <<now, run, poll, ask, clipboard, abandoned, ext,
                   logger, handled, tool, review,
                   config, reviews, pendingReviews>>

\* the delay is over: attempt++ and the next iteration of the loop
BackoffElapsed ==
    /\ retry.pc = "delay"
    /\ now' = now + retry.delay
    /\ retry' = retryLoop([retry EXCEPT !.attempt = @ + 1,
                                        !.delays = Append(@, retry.delay)])
    /\ UNCHANGED <<run, poll, ask, clipboard, abandoned, ext,
                   logger, handled, tool, review,
                   config, reviews, pendingReviews>>

(***************************************************************************)
(* getConversations (tools/claude-desktop.ts) and ToolHandler.handleAsk,   *)
(* ToolHandler.handleGetConversations (handlers).                          *)
(* tool.pc is the await the activation is suspended at:                    *)
(*   "idle"              no activation                                     *)
(*   "called"            called, not yet run                               *)
(*   "askClaude"         await askClaude(...)                              *)
(*   "getConversations"  await runAppleScript(script) in getConversations  *)
(*   "resolved"          resolved with tool.response                       *)
(*   "rejected"          rejected with tool.error                          *)
(* tool.name is "ask" or "get_conversations".  History: tool.error is the  *)
(* error that the catch block of the method caught (NoError when none).    *)
(***************************************************************************)
IdleTool ==
    [pc |-> "idle", name |-> "", prompt |-> "", conversationId |-> "", timeout |-> 0,
     response |-> NoResponse, error |-> NoError]

\* s.split(separator)
RECURSIVE split(_, _)
split(s, separator) ==
    LET at == indexOf(s, separator)
    IN  IF at = -1 THEN <<s>>
        ELSE <<substringTo(s, at)>> \o split(substringFrom(s, at + Len(separator)), separator)

\* result.split(', ').filter(c => c.trim().length > 0), or [] for the fixed text
conversationsOf(result) ==
    IF result = NoConversationsFound THEN <<>>
    ELSE SelectSeq(split(result, ", "), LAMBDA c : Len(trim(c)) > 0)

\* the lines of JSON.stringify(strings, null, 2) between the brackets
RECURSIVE jsonItems(_)
jsonItems(strings) ==
    IF Len(strings) = 1 THEN "    " \o jsonString(strings[1]) \o "\n"
    ELSE "    " \o jsonString(strings[1]) \o ",\n" \o jsonItems(Tail(strings))

\* JSON.stringify({conversations, timestamp}, null, 2); the timestamp is the
\* time of the return in abstract units
conversationsJSON(conversations, t) ==
    "{\n  \"conversations\": "
        \o (IF conversations = <<>> THEN "[]"
            ELSE "[\n" \o jsonItems(conversations) \o "  ]")
        \o ",\n  \"timestamp\": " \o jsonString(ToString(t)) \o "\n}"

\* the conversion of the caught error at the end of the catch block of getConversations
convertConversationsError(error) ==
    IF \/ error.appleScriptErrorNumber = 1001
       \/ includes(error.message, "Claude Desktop is not running")
    THEN ClaudeDesktopError("Claude Desktop is not running", "CLAUDE_NOT_RUNNING")
    ELSE IF \/ error.appleScriptErrorNumber = 1002
            \/ includes(error.message, "No Claude window available")
    THEN ClaudeDesktopError("No Claude window found", "CLAUDE_WINDOW_NOT_FOUND")
    ELSE error

\* return { content: [{ type: 'text', text }] }
toolReturn(t, text) ==
    [t EXCEPT !.pc = "resolved", !.response = TextResponse(text, FALSE)]

\* toolCatch that lets the error through
toolCatch_Rethrows(t, lg, error, context) ==
    [tool |-> [t EXCEPT !.pc = "rejected", !.error = error], logger |-> lg]

\* catch (error) { return ErrorHandler.handle(error, context) }: the
\* activation and the logger after it
toolCatch(t, lg, error, context) ==
    LET h == handle(lg, error, context)
    IN  [tool |-> [t EXCEPT !.pc = "resolved", !.error = error, !.response = h.response],
         logger |-> h.logger]

\* the object that handleAsk logs, as JSON.stringify renders it
askRequestJSON(t) ==
    "{\"hasConversationId\":" \o (IF t.conversationId # "" THEN "true" ELSE "false")
        \o ",\"timeout\":" \o ToString(t.timeout) \o "}"

(***************************************************************************)
(* Steps of ToolHandler.                                                   *)
(***************************************************************************)
\* handleAsk(args) up to the await of askClaude: the log, the validation
HandleAskCall ==
    /\ tool.pc = "called"
    /\ tool.name = "ask"
    /\ LET lg == logCall(logger, "info", "Handling ask request", <<askRequestJSON(tool)>>)
       IN  IF tool.prompt = "" \/ Len(trim(tool.prompt)) = 0
           THEN LET c == toolCatch(tool, lg,
                             ValidationError("Prompt cannot be empty", "prompt"), "ask")
                IN  /\ tool' = c.tool
                    /\ logger' = c.logger
                    /\ ask' = ask
           ELSE /\ tool' = [tool EXCEPT !.pc = "askClaude"]
                /\ logger' = lg
                /\ ask' = [IdleAsk EXCEPT !.pc = "start", !.prompt = tool.prompt,
                                          !.conversationId = tool.conversationId,
                                          !.timeout = tool.timeout]
    /\ UNCHANGED <<now, run, poll, clipboard, abandoned, ext, retry, handled, review,
                   config, reviews, pendingReviews>>

\* askClaude resolved: the response holds the captured text
HandleAskReturned ==
    /\ tool.pc = "askClaude"
    /\ ask.pc = "returned"
    /\ tool' = toolReturn(tool, ask.result)
    /\ UNCHANGED <<now, run, poll, ask, clipboard, abandoned, ext,
                   retry, logger, handled, review,
                   config, reviews, pendingReviews>>

\* askClaude rejected: the catch block
HandleAskThrown ==
    /\ tool.pc = "askClaude"
    /\ ask.pc = "thrown"
    /\ LET c == toolCatch(tool, logger, ask.error, "ask")
       IN  /\ tool' = c.tool
           /\ logger' = c.logger
    /\ UNCHANGED <<now, run, poll, ask, clipboard, abandoned, ext,
                   retry, handled, review,
                   config, reviews, pendingReviews>>

\* handleGetConversations(args) and getConversations() up to the await of the script
HandleGetConversationsCall ==
    /\ tool.pc = "called"
    /\ tool.name = "get_conversations"
    /\ tool' = [tool EXCEPT !.pc = "getConversations"]
    /\ logger' = logCall(logger, "info", "Handling get conversations request", <<>>)
    /\ run' = runAppleScript(ConversationsScript, DefaultRetries)
    /\ UNCHANGED <<now, poll, ask, clipboard, abandoned, ext, retry, handled, review,
                   config, reviews, pendingReviews>>

\* the script returned: the list of getConversations, rendered by the handler
GetConversationsReturned ==
    /\ tool.pc = "getConversations"
    /\ run.pc = "returned"
    /\ tool' = toolReturn(tool, conversationsJSON(conversationsOf(run.result), now))
    /\ run' = IdleRun
    /\ UNCHANGED <<now, poll, ask, clipboard, abandoned, ext,
                   retry, logger, handled, review,
                   config, reviews, pendingReviews>>

\* the script threw: the catch block of getConversations, then the handler's
GetConversationsThrown ==
    /\ tool.pc = "getConversations"
    /\ run.pc = "thrown"
    /\ LET c == toolCatch(tool, logger, convertConversationsError(run.error),
                          "get_conversations")
       IN  /\ tool' = c.tool
           /\ logger' = c.logger
    /\ run' = IdleRun
    /\ UNCHANGED <<now, poll, ask, clipboard, abandoned, ext, retry, handled, review,
                   config, reviews, pendingReviews>>

(***************************************************************************)
(* handleCodeReviewRequest(request, pollingOptions) (tools/code-review.ts).*)
(* review.pc is the await the activation is suspended at:                  *)
(*   "idle"      no activation         "called"  called, not yet run       *)
(*   "send"      await runAppleScript(script) in sendToClaudeDesktop       *)
(*   "check"     await runAppleScript(script) in checkClaudeDesktopResponse*)
(*   "sleep"     await setTimeout(interval) in pollForResponse             *)
(*   "resolved"  resolved with review.response                             *)
(*   "rejected"  rejected with review.error                                *)
(* A request is a record of strings, "" for an absent field.  A response   *)
(* is a record (reviewId, status, review); review.pending is the status of *)
(* the entry of the call in pendingReviews ("" when there is none).        *)
(* History: review.checks counts the response-check scripts started,       *)
(* review.completedChecks those that yielded a completed review,           *)
(* review.lastCheckAt the time the latest one was started and review.error *)
(* the error caught by the catch block.                                    *)
(***************************************************************************)
NoReview == [reviewId |-> "", status |-> "", review |-> ""]

IdleReview ==
    [pc |-> "idle", reviewId |-> "",
     request |-> [code |-> "", language |-> "", context |-> "", reviewType |-> ""],
     timeout |-> 0, interval |-> 0, maxAttempts |-> 0, startTime |-> 0, attempts |-> 0,
     response |-> NoReview, pending |-> "", error |-> NoError,
     checks |-> 0, completedChecks |-> 0, lastCheckAt |-> NotYet]

\* reviewTypeDescriptions[request.reviewType]
reviewTypeDescription(reviewType) ==
    CASE reviewType = "general" -> "General code quality and best practices"
      [] reviewType = "security" -> "Security vulnerabilities and safe coding practices"
      [] reviewType = "performance" -> "Performance optimization and efficiency"
      [] reviewType = "style" -> "Code style, readability, and maintainability"

\* the three grave accents that open and close the code block of the prompt
CodeFence ==
    LET graveAccent == SubSeq("`'", 1, 1)
    IN  graveAccent \o graveAccent \o graveAccent

\* formatReviewPrompt(request)
formatReviewPrompt(request) ==
    "[CODE REVIEW REQUEST]\n\n"
    \o "You are a senior software engineer conducting a thorough code review. "
    \o "Please analyze the following code with attention to detail.\n\n"
    \o (IF request.language # "" THEN "**Language:** " \o request.language \o "\n" ELSE "")
    \o (IF request.reviewType # ""
        THEN "**Review Focus:** " \o reviewTypeDescription(request.reviewType) \o "\n"
        ELSE "")
    \o (IF request.context # "" THEN "**Context:** " \o request.context \o "\n" ELSE "")
    \o "\n**Code to Review:**\n"
    \o CodeFence \o request.language \o "\n" \o request.code \o "\n" \o CodeFence \o "\n\n"
    \o "**Please provide a detailed review covering:**\n"
    \o "1. **Overview** - Brief summary of what the code does\n"
    \o "2. **Strengths** - What's done well in the code\n"
    \o "3. **Issues & Concerns** - Bugs, potential problems, or violations\n"
    \o (CASE request.reviewType = "security" ->
                 "4. **Security Analysis** - Vulnerabilities, injection risks, data exposure\n"
          [] request.reviewType = "performance" ->
                 "4. **Performance Analysis** - Bottlenecks, optimization opportunities\n"
          [] request.reviewType = "style" ->
                 "4. **Style & Readability** - Naming, structure, documentation needs\n"
          [] OTHER ->
                 "4. **Code Quality** - Best practices, design patterns, maintainability\n")
    \o "5. **Recommendations** - Specific suggestions for improvement with code examples\n"
    \o "6. **Priority** - Rate issues as High/Medium/Low priority\n\n"
    \o "Format your response clearly with sections and use code blocks for any suggested improvements."

\* the script of sendToClaudeDesktop (its statements, without the layout)
SendReviewScript(reviewId, escapedPrompt) ==
    SendReviewHead
        \o " tell application \"System Events\" tell process \"Claude\" set frontmost to true keystroke \"n\" using command down delay 1 keystroke \""
        \o ReviewMarker(reviewId) \o "\\n\\n" \o escapedPrompt
        \o "\" delay 0.5 key code 36 end tell end tell end tell"

\* the script of checkClaudeDesktopResponse (its statements, without the layout)
CheckReviewScript(reviewId) ==
    CheckReviewHead
        \o " try set allElements to every UI element of window 1 repeat with elem in allElements try set elemValue to value of elem as string if elemValue contains \""
        \o ReviewMarker(reviewId)
        \o "\" then set allText to elemValue exit repeat end if end try end repeat end try return allText end tell end tell end tell"

\* the lower case of the letters of "Assistant:" and "Claude:"
lowerCase(c) ==
    CASE c = "A" -> "a" [] c = "S" -> "s" [] c = "I" -> "i" [] c = "T" -> "t"
      [] c = "N" -> "n" [] c = "C" -> "c" [] c = "L" -> "l" [] c = "U" -> "u"
      [] c = "D" -> "d" [] c = "E" -> "e" [] OTHER -> c

\* the lower-case word stands at the 0-based index at of s, whatever the case
matchesAt(s, at, word) ==
    /\ at + Len(word) <= Len(s)
    /\ \A k \in 1..Len(word) : lowerCase(charAt(s, at + k)) = charAt(word, k)

\* the length of the match of /Assistant:|Claude:/i at the index at, 0 when none
speakerAt(s, at) ==
    IF matchesAt(s, at, "assistant:") THEN Len("assistant:")
    ELSE IF matchesAt(s, at, "claude:") THEN Len("claude:")
    ELSE 0

\* s.search(/Assistant:|Claude:/i)
searchSpeaker(s) ==
    LET hits == {at \in 0..(Len(s) - 1) : speakerAt(s, at) > 0}
    IN  IF hits = {} THEN -1 ELSE MinOf(hits)

\* s.replace(/^(Assistant:|Claude:)\s*/i, '')
stripSpeaker(s) ==
    LET n == speakerAt(s, 0)
        rest == SubSeq(s, n + 1, Len(s))
        keep == {i \in 1..Len(rest) : charAt(rest, i) \notin WhiteSpace}
    IN  IF n = 0 THEN s
        ELSE IF keep = {} THEN ""
        ELSE SubSeq(rest, MinOf(keep), Len(rest))

\* extractReviewContent(fullText, reviewId): string | null
extractReviewContent(fullText, reviewId) ==
    LET startMarker == ReviewMarker(reviewId)
        startIndex == indexOf(fullText, startMarker)
        contentAfterMarker == substringFrom(fullText, startIndex + Len(startMarker))
        assistantResponseIndex == searchSpeaker(contentAfterMarker)
        cleanedContent ==
            trim(stripSpeaker(substringFrom(contentAfterMarker, assistantResponseIndex)))
    IN  IF startIndex = -1 THEN Null
        ELSE IF assistantResponseIndex # -1 /\ Len(cleanedContent) > MinReviewLength
        THEN Some(cleanedContent)
        ELSE Null

\* the try block of checkClaudeDesktopResponse once the script returned
\* result: the completed response, or NoReview for null
checkResponse(result, reviewId) ==
    IF result # "" /\ includes(result, reviewId)
       /\ Truthy(extractReviewContent(result, reviewId))
    THEN [reviewId |-> reviewId, status |-> "completed",
          review |-> extractReviewContent(result, reviewId).text]
    ELSE NoReview

\* the response of the catch block of handleCodeReviewRequest
errorResponse(r, error) ==
    [reviewId |-> r.reviewId, status |-> "failed",
     review |-> "Error: " \o (IF instanceofError(error) THEN error.message
                              ELSE "Unknown error")]

\* reviewCatch that throws the error again
reviewCatch_Rethrows(r, error) == [r EXCEPT !.pc = "rejected", !.error = error]

\* catch (error) { ...; pendingReviews.set(reviewId, errorResponse); return errorResponse }
reviewCatch(r, error) ==
    [r EXCEPT !.pc = "resolved", !.error = error, !.response = errorResponse(r, error),
              !.pending = "failed"]

TimedOutReview == "Code review timed out"

\* the statements after the while loop of pollForResponse
reviewTimedOut(r) ==
    [r EXCEPT !.pc = "resolved", !.pending = "failed",
              !.response = [reviewId |-> r.reviewId, status |-> "failed",
                            review |-> TimedOutReview]]

\* reviewCondition that does not look at the clock
reviewCondition_NoTimeout(r, t) == r.attempts < r.maxAttempts

\* while (attempts < maxAttempts && Date.now() - startTime < timeout)
reviewCondition(r, t) ==
    r.attempts < r.maxAttempts /\ t - r.startTime < r.timeout

\* the tick of pollForResponse once the check gave response (NoReview for null)
reviewTick(r, response) ==
    IF response # NoReview /\ response.status = "completed"
    THEN [r EXCEPT !.pc = "resolved", !.response = response, !.pending = "completed",
                   !.completedChecks = @ + 1]
    ELSE [r EXCEPT !.pc = "sleep",
                   !.pending = IF r.pending # "" THEN "in_progress" ELSE @]

(***************************************************************************)
(* Steps of handleCodeReviewRequest.                                       *)
(***************************************************************************)
\* uuidv4()
ReviewIds == {"3f2b8c1e-7a4d-4e9b-9c55-0d6a1b2c3d4e"}

\* the requests the server passes on
ReviewRequests ==
    {[code |-> "console.log(\"Hello World\");", language |-> "javascript",
      context |-> "", reviewType |-> ""],
     [code |-> "function add(a, b) { return a + b; }", language |-> "javascript",
      context |-> "Utility function for addition", reviewType |-> "general"],
     [code |-> repeat("x", MaxStringLength), language |-> "", context |-> "",
      reviewType |-> "security"]}

\* the head of the while loop of pollForResponse at time t: the next check,
\* or the timed-out response
reviewLoop(r, t) ==
    IF reviewCondition(r, t)
    THEN /\ review' = [r EXCEPT !.pc = "check", !.attempts = @ + 1, !.checks = @ + 1,
                                !.lastCheckAt = t]
         /\ run' = runAppleScript(CheckReviewScript(r.reviewId), DefaultRetries)
    ELSE /\ review' = reviewTimedOut(r)
         /\ run' = IdleRun

\* the call: the id, the pending entry, the prompt and its escape, the send script
ReviewCall ==
    /\ review.pc = "called"
    /\ \E reviewId \in ReviewIds :
           LET r == [review EXCEPT !.reviewId = reviewId, !.pending = "pending"]
               reviewPrompt == formatReviewPrompt(review.request)
           IN  IF escapeFailure(reviewPrompt) # NoError
               THEN /\ review' = reviewCatch(r, escapeFailure(reviewPrompt))
                    /\ run' = IdleRun
               ELSE /\ review' = [r EXCEPT !.pc = "send"]
                    /\ run' = runAppleScript(
                                  SendReviewScript(reviewId,
                                      escapeAppleScriptString(reviewPrompt)),
                                  DefaultRetries)
    /\ UNCHANGED <<now, poll, ask, clipboard, abandoned, ext,
                   retry, logger, handled, tool,
                   config, reviews, pendingReviews>>

\* the send script returned: pollForResponse is called, the first loop head
ReviewSendReturned ==
    /\ review.pc = "send"
    /\ run.pc = "returned"
    /\ reviewLoop([review EXCEPT !.startTime = now, !.attempts = 0], now)
    /\ UNCHANGED <<now, poll, ask, clipboard, abandoned, ext,
                   retry, logger, handled, tool,
                   config, reviews, pendingReviews>>

\* the send script threw: sendToClaudeDesktop rethrows, the catch block
ReviewSendThrown ==
    /\ review.pc = "send"
    /\ run.pc = "thrown"
    /\ review' = reviewCatch(review, run.error)
    /\ run' = IdleRun
    /\ UNCHANGED <<now, poll, ask, clipboard, abandoned, ext,
                   retry, logger, handled, tool,
                   config, reviews, pendingReviews>>

\* the check script returned: the completed response, or the sleep
ReviewCheckReturned ==
    /\ review.pc = "check"
    /\ run.pc = "returned"
    /\ review' = reviewTick(review, checkResponse(run.result, review.reviewId))
    /\ run' = IdleRun
    /\ UNCHANGED <<now, poll, ask, clipboard, abandoned, ext,
                   retry, logger, handled, tool,
                   config, reviews, pendingReviews>>

\* the check script threw: checkClaudeDesktopResponse returns null, the sleep
ReviewCheckThrown ==
    /\ review.pc = "check"
    /\ run.pc = "thrown"
    /\ review' = reviewTick(review, NoReview)
    /\ run' = IdleRun
    /\ UNCHANGED <<now, poll, ask, clipboard, abandoned, ext,
                   retry, logger, handled, tool,
                   config, reviews, pendingReviews>>

\* the sleep of interval is over: the next loop head
ReviewWake ==
    /\ review.pc = "sleep"
    /\ now' = now + review.interval
    /\ reviewLoop(review, now + review.interval)
    /\ UNCHANGED <<poll, ask, clipboard, abandoned, ext,
                   retry, logger, handled, tool,
                   config, reviews, pendingReviews>>

\* the timer of the finally block fires, later: pendingReviews.delete(reviewId)
PendingReviewExpires ==
    /\ review.pc = "resolved"
    /\ review.pending # ""
    /\ review' = [review EXCEPT !.pending = ""]
    /\ UNCHANGED <<now, run, poll, ask, clipboard, abandoned, ext,
                   retry, logger, handled, tool,
                   config, reviews, pendingReviews>>

(***************************************************************************)
(* The configuration (config).  A configuration is a record of sections,   *)
(* a section a record of settings; a Partial<Config> is a function from    *)
(* some of the section names to functions from some of the setting names.  *)
(* config.object is the exported config object.  History: config.calls     *)
(* counts the calls of updateConfig, config.before is the object as it was *)
(* when the latest call was made and config.error the message of the error *)
(* that call threw ("" when it returned).                                  *)
(***************************************************************************)
defaultConfig ==
    [server |-> [name |-> "mcp-claude-desktop", version |-> "1.0.0"],
     logging |-> [level |-> LogLevel.INFO],
     polling |-> [defaultTimeout |-> 30000, defaultInterval |-> 1500,
                  maxTimeout |-> 300000, maxInterval |-> 10000, minInterval |-> 500,
                  requiredStableChecks |-> requiredStableChecks],
     applescript |-> [maxBuffer |-> 10 * 1024 * 1024, timeout |-> 30000,
                      retries |-> DefaultRetries, retryDelay |-> 1000,
                      maxScriptLength |-> MaxScriptLength,
                      maxStringLength |-> MaxStringLength],
     claude |-> [activationDelay |-> 1000, windowCheckRetries |-> 10,
                 windowCheckDelay |-> 500, responseStartDelay |-> 3500],
     limits |-> [maxPromptLength |-> maxPromptLength,
                 maxConversationIdLength |-> maxConversationIdLength]]

\* {}
EmptyObject == [key \in {} |-> 0]

\* { ...base, ...override }
spread(base, override) ==
    [key \in DOMAIN base \cup DOMAIN override |->
        IF key \in DOMAIN override THEN override[key] ELSE base[key]]

\* override.section || {}
sectionOf(override, section) ==
    IF section \in DOMAIN override THEN override[section] ELSE EmptyObject

\* loadEnvironmentConfig(): env gives, for each variable, the number that
\* parseInt makes of it: <<n>>, or <<>> when the variable is unset or not a number
loadEnvironmentConfig(env) ==
    LET level == env.LOG_LEVEL
        timeout == env.CLAUDE_POLLING_TIMEOUT
        interval == env.CLAUDE_POLLING_INTERVAL
        retries == env.APPLESCRIPT_RETRIES
        logging ==
            IF level # <<>> /\ level[1] >= LogLevel.ERROR /\ level[1] <= LogLevel.DEBUG
            THEN [logging |-> [level |-> level[1]]] ELSE EmptyObject
        pollingOverrides ==
            spread(IF timeout # <<>> /\ timeout[1] > 0
                   THEN [defaultTimeout |-> timeout[1]] ELSE EmptyObject,
                   IF interval # <<>> /\ interval[1] > 0
                   THEN [defaultInterval |-> interval[1]] ELSE EmptyObject)
        applescriptOverrides ==
            IF retries # <<>> /\ retries[1] > 0
            THEN [retries |-> retries[1]] ELSE EmptyObject
        polling ==
            IF DOMAIN pollingOverrides # {} THEN [polling |-> pollingOverrides]
            ELSE EmptyObject
        applescript ==
            IF DOMAIN applescriptOverrides # {} THEN [applescript |-> applescriptOverrides]
            ELSE EmptyObject
    IN  spread(spread(logging, polling), applescript)

\* mergeConfig(base, override)
mergeConfig(base, override) ==
    [server |-> spread(base.server, sectionOf(override, "server")),
     logging |-> spread(base.logging, sectionOf(override, "logging")),
     polling |-> spread(base.polling, sectionOf(override, "polling")),
     applescript |-> spread(base.applescript, sectionOf(override, "applescript")),
     claude |-> spread(base.claude, sectionOf(override, "claude")),
     limits |-> spread(base.limits, sectionOf(override, "limits"))]

\* validateConfig(cfg): the message of the error it throws, "" when it returns
validateConfig(cfg) ==
    IF cfg.polling.defaultTimeout <= 0 THEN "Polling timeout must be positive"
    ELSE IF cfg.polling.defaultInterval <= 0 THEN "Polling interval must be positive"
    ELSE IF cfg.polling.minInterval > cfg.polling.defaultInterval
    THEN "Minimum interval cannot be greater than default interval"
    ELSE IF cfg.polling.defaultInterval > cfg.polling.maxInterval
    THEN "Default interval cannot be greater than maximum interval"
    ELSE IF cfg.applescript.retries < 1 THEN "AppleScript retries must be at least 1"
    ELSE IF cfg.applescript.maxBuffer <= 0 THEN "AppleScript max buffer must be positive"
    ELSE IF cfg.limits.maxPromptLength <= 0 THEN "Max prompt length must be positive"
    ELSE ""

\* export const config = mergeConfig(defaultConfig, loadEnvironmentConfig())
Config(env) ==
    LET object == mergeConfig(defaultConfig, loadEnvironmentConfig(env))
    IN  [object |-> object, before |-> object, error |-> "", calls |-> 0]

\* the environment with none of the variables set
NoEnv ==
    [LOG_LEVEL |-> <<>>, CLAUDE_POLLING_TIMEOUT |-> <<>>,
     CLAUDE_POLLING_INTERVAL |-> <<>>, APPLESCRIPT_RETRIES |-> <<>>]

IdleConfig == Config(NoEnv)

\* updateConfig(updates): Object.assign(config, mergeConfig(config, updates)),
\* then validateConfig(config)
updateConfig(c, updates) ==
    LET merged == mergeConfig(c.object, updates)
    IN  [object |-> merged, before |-> c.object, error |-> validateConfig(merged),
         calls |-> c.calls + 1]

(***************************************************************************)
(* Steps of updateConfig.                                                  *)
(***************************************************************************)
\* the values the environment variables hold once parsed
Envs ==
    [LOG_LEVEL : {<<>>, <<LogLevel.DEBUG>>, <<LogLevel.DEBUG + 1>>},
     CLAUDE_POLLING_TIMEOUT : {<<>>, <<0>>, <<60000>>},
     CLAUDE_POLLING_INTERVAL : {<<>>, <<2000>>},
     APPLESCRIPT_RETRIES : {<<>>, <<0>>, <<5>>}]

\* the settings a caller of updateConfig overrides, section by section
PollingUpdates ==
    {[defaultTimeout |-> 0], [defaultTimeout |-> 60000], [defaultInterval |-> 0],
     [defaultInterval |-> 100], [defaultInterval |-> 20000],
     [defaultInterval |-> 3000, maxInterval |-> 5000]}

ApplescriptUpdates == {[retries |-> 0], [retries |-> 5], [maxBuffer |-> 0]}

LimitsUpdates == {[maxPromptLength |-> 0], [maxPromptLength |-> 500]}

\* the arguments of updateConfig
Updates ==
    {[section \in sections |-> full[section]] :
        full \in [polling : PollingUpdates, applescript : ApplescriptUpdates,
                  limits : LimitsUpdates],
        sections \in SUBSET {"polling", "applescript", "limits"}}

UpdateConfig ==
    /\ config.calls < MaxUpdates
    /\ \E updates \in Updates : config' = updateConfig(config, updates)
    /\ UNCHANGED <<now, run, poll, ask, clipboard, abandoned, ext,
                   retry, logger, handled, tool, review, reviews, pendingReviews>>

(***************************************************************************)
(* Concurrent calls of handleCodeReviewRequest and the pendingReviews map  *)
(* they share (tools/code-review.ts).  reviews[i] is the i-th activation,  *)
(* with the pc of `review` ("idle": not called yet); an awaited script is  *)
(* taken as a whole here: it returns one of its outputs or throws, and the *)
(* time the send script takes is not counted.                              *)
(* pendingReviews is a function from the keys of the Map to the responses  *)
(* it holds.  reviews[i].timer is the timer of the finally block: "" (not  *)
(* armed), "armed" or "fired"; reviews[i].armedAt and reviews[i].wakeAt    *)
(* are the times the timer was armed at and the sleep ends at.             *)
(***************************************************************************)
ReviewCalls == 1..MaxConcurrentReviews

IdleConcurrentReview ==
    [pc |-> "idle", reviewId |-> "", timeout |-> 0, interval |-> 0, maxAttempts |-> 0,
     startTime |-> 0, attempts |-> 0, response |-> NoReview, timer |-> "",
     armedAt |-> NotYet, wakeAt |-> NotYet]

IdleReviews == [i \in ReviewCalls |-> IdleConcurrentReview]

\* new Map()
NoPendingReviews == [reviewId \in {} |-> NoReview]

\* map.set(key, value)
mapSet(map, key, value) ==
    [k \in DOMAIN map \cup {key} |-> IF k = key THEN value ELSE map[k]]

\* mapDelete that empties the map
mapDelete_Clears(map, key) == NoPendingReviews

\* map.delete(key)
mapDelete(map, key) ==
    [k \in DOMAIN map \ {key} |-> map[k]]

\* finally { setTimeout(() => pendingReviews.delete(reviewId), 60000) }
armTimer(r, t) == [r EXCEPT !.timer = "armed", !.armedAt = t]

\* the activation i resolves at time t with response, which the map holds by then
resolveReview(i, response, t) ==
    /\ reviews' = [reviews EXCEPT ![i] = armTimer([@ EXCEPT !.pc = "resolved",
                                                           !.response = response], t)]
    /\ pendingReviews' = mapSet(pendingReviews, reviews[i].reviewId, response)

\* currentReview = pendingReviews.get(reviewId);
\* if (currentReview) { currentReview.status = 'in_progress'; pendingReviews.set(...) }
markInProgress(map, reviewId) ==
    IF reviewId \in DOMAIN map
    THEN mapSet(map, reviewId, [map[reviewId] EXCEPT !.status = "in_progress"])
    ELSE map

\* the timeoutResponse of pollForResponse
timeoutResponse(r) ==
    [reviewId |-> r.reviewId, status |-> "failed", review |-> TimedOutReview]

\* the head of the while loop of pollForResponse of the activation i, whose
\* record is r, at time t
concurrentLoop(i, r, t) ==
    IF reviewCondition(r, t)
    THEN /\ reviews' = [reviews EXCEPT ![i] = [r EXCEPT !.pc = "check",
                                                        !.attempts = @ + 1]]
         /\ pendingReviews' = pendingReviews
    ELSE /\ reviews' = [reviews EXCEPT ![i] =
                            armTimer([r EXCEPT !.pc = "resolved",
                                               !.response = timeoutResponse(r)], t)]
         /\ pendingReviews' = mapSet(pendingReviews, r.reviewId, timeoutResponse(r))

(***************************************************************************)
(* Steps of the concurrent calls of handleCodeReviewRequest.               *)
(***************************************************************************)
\* the values uuidv4() gives
Uuids == ReviewIds \cup {"9b1deb4d-3b7d-4bad-9bdd-2b0d7b3dcb6d"}

\* the errors runAppleScript(script) throws
SendErrors ==
    {ScriptError(DefaultRetries, TimeoutError),
     ScriptError(DefaultRetries,
                 Error("execution error: Claude got an error: Application isn't running. (-600)", "1"))}

\* uuidv4(): an id that no call was given before
uuidv4 == Uuids \ {reviews[i].reviewId : i \in ReviewCalls}

\* the call i: the id, the pending entry, the prompt and its escape, the send script
ConcurrentReviewCall(i) ==
    /\ reviews[i].pc = "idle"
    /\ \E reviewId \in uuidv4, request \in ReviewRequests,
          maxAttempts \in 1..MaxReviewAttempts :
           LET r == [reviews[i] EXCEPT !.reviewId = reviewId, !.timeout = ReviewTimeout,
                                        !.interval = ReviewInterval,
                                        !.maxAttempts = maxAttempts]
               initialResponse == [reviewId |-> reviewId, status |-> "pending",
                                   review |-> ""]
               reviewPrompt == formatReviewPrompt(request)
           IN  IF escapeFailure(reviewPrompt) # NoError
               THEN /\ reviews' = [reviews EXCEPT ![i] =
                                       armTimer([r EXCEPT !.pc = "resolved",
                                                    !.response = errorResponse(r,
                                                        escapeFailure(reviewPrompt))],
                                                now)]
                    /\ pendingReviews' =
                           mapSet(mapSet(pendingReviews, reviewId, initialResponse),
                                  reviewId, errorResponse(r, escapeFailure(reviewPrompt)))
               ELSE /\ reviews' = [reviews EXCEPT ![i] = [r EXCEPT !.pc = "send"]]
                    /\ pendingReviews' = mapSet(pendingReviews, reviewId, initialResponse)
    /\ UNCHANGED <<now, run, poll, ask, clipboard, abandoned, ext,
                   retry, logger, handled, tool, review, config>>

\* the send script of the call i returned: pollForResponse, the first loop head
ConcurrentSendReturned(i) ==
    /\ reviews[i].pc = "send"
    /\ concurrentLoop(i, [reviews[i] EXCEPT !.startTime = now, !.attempts = 0], now)
    /\ UNCHANGED <<now, run, poll, ask, clipboard, abandoned, ext,
                   retry, logger, handled, tool, review, config>>

\* the send script of the call i threw: the catch block, the finally block
ConcurrentSendThrown(i) ==
    /\ reviews[i].pc = "send"
    /\ \E error \in SendErrors : resolveReview(i, errorResponse(reviews[i], error), now)
    /\ UNCHANGED <<now, run, poll, ask, clipboard, abandoned, ext,
                   retry, logger, handled, tool, review, config>>

\* checkClaudeDesktopResponse of the call i ended: the script returned a text
\* or threw (null).  The completed response, or the sleep
ConcurrentCheckEnds(i) ==
    /\ reviews[i].pc = "check"
    /\ \E text \in ReviewWindowTexts(reviews[i].reviewId), threw \in BOOLEAN,
          d \in 0..(ScriptTimeout - 1) :
           LET response == IF threw THEN NoReview
                           ELSE checkResponse(trim(text), reviews[i].reviewId)
           IN  /\ now' = now + d
               /\ IF response # NoReview /\ response.status = "completed"
                  THEN resolveReview(i, response, now + d)
                  ELSE /\ reviews' = [reviews EXCEPT
                                          ![i].pc = "sleep",
                                          ![i].wakeAt = now + d + reviews[i].interval]
                       /\ pendingReviews' = markInProgress(pendingReviews,
                                                           reviews[i].reviewId)
    /\ UNCHANGED <<run, poll, ask, clipboard, abandoned, ext,
                   retry, logger, handled, tool, review, config>>

\* the sleep of the call i is over: the next loop head
ConcurrentReviewWake(i) ==
    /\ reviews[i].pc = "sleep"
    /\ now' = MaxOf({now, reviews[i].wakeAt})
    /\ concurrentLoop(i, reviews[i], MaxOf({now, reviews[i].wakeAt}))
    /\ UNCHANGED <<run, poll, ask, clipboard, abandoned, ext,
                   retry, logger, handled, tool, review, config>>

\* the timer of the finally block of the call i fires
ReviewTimerFires(i) ==
    /\ reviews[i].timer = "armed"
    /\ now' = MaxOf({now, reviews[i].armedAt + PendingReviewDelay})
    /\ reviews' = [reviews EXCEPT ![i].timer = "fired"]
    /\ pendingReviews' = mapDelete(pendingReviews, reviews[i].reviewId)
    /\ UNCHANGED <<run, poll, ask, clipboard, abandoned, ext,
                   retry, logger, handled, tool, review, config>>

(***************************************************************************)
(* Specifications.                                                         *)
(***************************************************************************)
\* runAppleScript called on its own
InitRun ==
    /\ now = 0
    /\ run = IdleRun
    /\ poll = IdlePoll
    /\ ask = IdleAsk
    /\ clipboard = TextClip("")
    /\ abandoned = FALSE
    /\ ext = IdleExt
    /\ retry = IdleRetry
    /\ logger = DefaultLogger
    /\ handled = IdleHandled
    /\ tool = IdleTool
    /\ config = IdleConfig
    /\ reviews = IdleReviews
    /\ pendingReviews = NoPendingReviews
    /\ review = IdleReview

NextRun ==
    \/ CallRunAppleScript
    \/ ExecSucceeds
    \/ ExecFails
    \/ ExecTimesOut
    \/ AbandonedExecEnds
    \/ RetryDelayElapsed

SpecRun == InitRun /\ [][NextRun]_vars

\* pollForClaudeResponse called after a prompt was submitted
Init ==
    /\ now = 0
    /\ run = IdleRun
    /\ \E prompt \in Prompts, value \in SkipValues :
           poll = [IdlePoll EXCEPT !.pc = "start", !.originalPrompt = prompt,
                                   !.timeout = PollTimeout,
                                   !.SKIP_CLAUDE_POLLING = value]
    /\ ask = IdleAsk
    /\ clipboard = TextClip("")
    /\ abandoned = FALSE
    /\ ext = IdleExt
    /\ retry = IdleRetry
    /\ logger = DefaultLogger
    /\ handled = IdleHandled
    /\ tool = IdleTool
    /\ config = IdleConfig
    /\ reviews = IdleReviews
    /\ pendingReviews = NoPendingReviews
    /\ review = IdleReview

Next ==
    \/ PollStart
    \/ PollSampleReturned
    \/ PollSampleThrown
    \/ PollWake
    \/ ExecSucceeds
    \/ ExecFails
    \/ ExecTimesOut
    \/ AbandonedExecEnds
    \/ RetryDelayElapsed

Spec == Init /\ [][Next]_vars

\* askClaude called by a tool handler
InitAsk ==
    /\ now = 0
    /\ run = IdleRun
    /\ \E call \in AskCalls :
           /\ ask = [IdleAsk EXCEPT !.pc = "start", !.prompt = call.prompt,
                                    !.conversationId = call.conversationId,
                                    !.timeout = AskPollTimeout]
           /\ clipboard = call.clipboard
           /\ poll = [IdlePoll EXCEPT !.SKIP_CLAUDE_POLLING = call.skip]
    /\ abandoned = FALSE
    /\ ext = IdleExt
    /\ retry = IdleRetry
    /\ logger = DefaultLogger
    /\ handled = IdleHandled
    /\ tool = IdleTool
    /\ config = IdleConfig
    /\ reviews = IdleReviews
    /\ pendingReviews = NoPendingReviews
    /\ review = IdleReview

NextAsk ==
    \/ AskStart
    \/ AskSaveReturned
    \/ AskSaveThrown
    \/ AskSubmitReturned
    \/ AskSubmitThrown
    \/ AskSettled
    \/ AskPollReturned
    \/ AskRestoreDone
    \/ AskRecoverDone
    \/ PollStart
    \/ PollSampleReturned
    \/ PollSampleThrown
    \/ PollWake
    \/ ExecSucceeds
    \/ ExecFails
    \/ ExecTimesOut
    \/ AbandonedExecEnds
    \/ RetryDelayElapsed

SpecAsk == InitAsk /\ [][NextAsk]_vars

\* extractClaudeResponse called with a raw text and a prompt
InitExtract ==
    /\ now = 0
    /\ run = IdleRun
    /\ poll = IdlePoll
    /\ ask = IdleAsk
    /\ clipboard = TextClip("")
    /\ abandoned = FALSE
    /\ \E fullText \in RawTexts(MaxSegments), prompt \in Prompts :
           ext = [IdleExt EXCEPT !.pc = "called", !.fullText = fullText,
                                 !.prompt = prompt]
    /\ retry = IdleRetry
    /\ logger = DefaultLogger
    /\ handled = IdleHandled
    /\ tool = IdleTool
    /\ config = IdleConfig
    /\ reviews = IdleReviews
    /\ pendingReviews = NoPendingReviews
    /\ review = IdleReview

NextExtract == Extract

SpecExtract == InitExtract /\ [][NextExtract]_vars


\* the Logger and ErrorHandler.handle called on their own
InitLog ==
    /\ now = 0
    /\ run = IdleRun
    /\ poll = IdlePoll
    /\ ask = IdleAsk
    /\ clipboard = TextClip("")
    /\ abandoned = FALSE
    /\ ext = IdleExt
    /\ retry = IdleRetry
    /\ logger = DefaultLogger
    /\ handled = IdleHandled
    /\ tool = IdleTool
    /\ config = IdleConfig
    /\ reviews = IdleReviews
    /\ pendingReviews = NoPendingReviews
    /\ review = IdleReview

NextLog ==
    \/ ConfigureLogger
    \/ LoggerCall
    \/ Handle

SpecLog == InitLog /\ [][NextLog]_vars


\* ErrorHandler.withRetry called with an operation
InitRetry ==
    /\ now = 0
    /\ run = IdleRun
    /\ poll = IdlePoll
    /\ ask = IdleAsk
    /\ clipboard = TextClip("")
    /\ abandoned = FALSE
    /\ ext = IdleExt
    /\ retry = IdleRetry
    /\ logger = DefaultLogger
    /\ handled = IdleHandled
    /\ tool = IdleTool
    /\ config = IdleConfig
    /\ reviews = IdleReviews
    /\ pendingReviews = NoPendingReviews
    /\ review = IdleReview

NextRetry ==
    \/ CallWithRetry
    \/ OperationResolves
    \/ OperationRejects
    \/ BackoffElapsed

SpecRetry == InitRetry /\ [][NextRetry]_vars

\* ErrorHandler.withRetry called with any number for maxAttempts
NextRetryAny ==
    \/ CallWithAnyMaxAttempts
    \/ OperationResolves
    \/ OperationRejects
    \/ BackoffElapsed

SpecRetryAny == InitRetry /\ [][NextRetryAny]_vars


\* a method of ToolHandler called by the server
InitTool ==
    /\ now = 0
    /\ run = IdleRun
    /\ ask = IdleAsk
    /\ \/ \E call \in AskCalls :
              /\ tool = [IdleTool EXCEPT !.pc = "called", !.name = "ask",
                                         !.prompt = call.prompt,
                                         !.conversationId = call.conversationId,
                                         !.timeout = AskPollTimeout]
              /\ clipboard = call.clipboard
              /\ poll = [IdlePoll EXCEPT !.SKIP_CLAUDE_POLLING = call.skip]
       \/ /\ tool = [IdleTool EXCEPT !.pc = "called", !.name = "get_conversations"]
          /\ clipboard = TextClip("")
          /\ poll = IdlePoll
    /\ abandoned = FALSE
    /\ ext = IdleExt
    /\ retry = IdleRetry
    /\ logger = DefaultLogger
    /\ handled = IdleHandled
    /\ review = IdleReview
    /\ config = IdleConfig
    /\ reviews = IdleReviews
    /\ pendingReviews = NoPendingReviews

NextTool ==
    \/ HandleAskCall
    \/ HandleAskReturned
    \/ HandleAskThrown
    \/ HandleGetConversationsCall
    \/ GetConversationsReturned
    \/ GetConversationsThrown
    \/ NextAsk

SpecTool == InitTool /\ [][NextTool]_vars


\* handleCodeReviewRequest called by the server
InitReview ==
    /\ now = 0
    /\ run = IdleRun
    /\ poll = IdlePoll
    /\ ask = IdleAsk
    /\ clipboard = TextClip("")
    /\ abandoned = FALSE
    /\ ext = IdleExt
    /\ retry = IdleRetry
    /\ logger = DefaultLogger
    /\ handled = IdleHandled
    /\ tool = IdleTool
    /\ config = IdleConfig
    /\ reviews = IdleReviews
    /\ pendingReviews = NoPendingReviews
    /\ \E request \in ReviewRequests, maxAttempts \in 1..MaxReviewAttempts :
           review = [IdleReview EXCEPT !.pc = "called", !.request = request,
                                       !.timeout = ReviewTimeout,
                                       !.interval = ReviewInterval,
                                       !.maxAttempts = maxAttempts]

NextReview ==
    \/ ReviewCall
    \/ ReviewSendReturned
    \/ ReviewSendThrown
    \/ ReviewCheckReturned
    \/ ReviewCheckThrown
    \/ ReviewWake
    \/ PendingReviewExpires
    \/ ExecSucceeds
    \/ ExecFails
    \/ ExecTimesOut
    \/ AbandonedExecEnds
    \/ RetryDelayElapsed

SpecReview == InitReview /\ [][NextReview]_vars


\* updateConfig called on the configuration the module loaded
InitConfig ==
    /\ now = 0
    /\ run = IdleRun
    /\ poll = IdlePoll
    /\ ask = IdleAsk
    /\ clipboard = TextClip("")
    /\ abandoned = FALSE
    /\ ext = IdleExt
    /\ retry = IdleRetry
    /\ logger = DefaultLogger
    /\ handled = IdleHandled
    /\ tool = IdleTool
    /\ review = IdleReview
    /\ \E env \in Envs : config = Config(env)
    /\ reviews = IdleReviews
    /\ pendingReviews = NoPendingReviews

NextConfig == UpdateConfig

SpecConfig == InitConfig /\ [][NextConfig]_vars

\* concurrent calls of handleCodeReviewRequest
InitReviews ==
    /\ now = 0
    /\ run = IdleRun
    /\ poll = IdlePoll
    /\ ask = IdleAsk
    /\ clipboard = TextClip("")
    /\ abandoned = FALSE
    /\ ext = IdleExt
    /\ retry = IdleRetry
    /\ logger = DefaultLogger
    /\ handled = IdleHandled
    /\ tool = IdleTool
    /\ review = IdleReview
    /\ config = IdleConfig
    /\ reviews = IdleReviews
    /\ pendingReviews = NoPendingReviews

NextReviews ==
    \/ \E i \in ReviewCalls : ConcurrentReviewCall(i)
    \/ \E i \in ReviewCalls : ConcurrentSendReturned(i)
    \/ \E i \in ReviewCalls : ConcurrentSendThrown(i)
    \/ \E i \in ReviewCalls : ConcurrentCheckEnds(i)
    \/ \E i \in ReviewCalls : ConcurrentReviewWake(i)
    \/ \E i \in ReviewCalls : ReviewTimerFires(i)

\* the event loop goes on as long as a script, a sleep or a timer is pending
FairSpecReviews == InitReviews /\ [][NextReviews]_vars /\ WF_vars(NextReviews)


(***************************************************************************)
(* Properties of pollForClaudeResponse (checked under Spec).               *)
(***************************************************************************)
\* the texts the sampling script returns instead of the window text
IsErrorSentinel(text) ==
    \/ text = ProcessNotFound
    \/ text = NoWindow
    \/ startsWith(text, ErrorReadingWindow)

\* poll returned through `return response` of the stable branch
ReturnedStable ==
    /\ poll.pc = "done"
    /\ poll.exit = "stable"
    /\ poll.result = poll.lastResponseText

MaxSampleTime == DefaultRetries * ScriptTimeout + (DefaultRetries - 1) * RetryDelay

C2_NoSampleRunsPastTimeout ==
    (poll.pc = "sample" /\ run.pc = "exec") => now - poll.startTime < PollTimeout

\* C3: a return through the stable path happens with stableCount >=
\* requiredStableChecks, on a tick whose raw sample holds no typing indicator,
\* and returns the current lastResponseText.
C3_StableReturnGuard ==
    poll.exit = "stable" =>
        /\ poll.pc = "done"
        /\ poll.stableCount >= requiredStableChecks
        /\ ~HasTypingIndicator(poll.currentText)
        /\ poll.result = poll.lastResponseText
        /\ poll.result = extractClaudeResponse(poll.currentText, poll.originalPrompt).text

C3_Witness ==
    /\ poll.exit = "stable"
    /\ poll.stableCount = requiredStableChecks
    /\ poll.currentText # poll.result

\* the poll ended at the timeout and every sample contained a typing indicator
TimedOutAllTyping ==
    /\ poll.pc = "done"
    /\ poll.exit = "timeout"
    /\ poll.allTyping
    /\ poll.currentText # ""

\* C4 as stated: when every sample until the timeout contained a typing
\* indicator, the fallback text is returned, not a partial candidate.
C4_AllTypingReturnsFallback ==
    TimedOutAllTyping => poll.result = UnableToRead(poll.originalPrompt)

\* C4 amended: when every sample contained a typing indicator the poller does
\* not return through the stable path; when the loop ends it returns the last
\* candidate extracted from these samples, and the fallback text only when no
\* candidate was extracted from any of them.
C4_AllTypingReturnsLastCandidate ==
    (poll.pc = "done" /\ poll.allTyping /\ poll.exit # "skipped") =>
        /\ poll.exit \in {"timeout", "abort"}
        /\ poll.result = IF poll.lastResponseText # "" THEN poll.lastResponseText
                         ELSE UnableToRead(poll.originalPrompt)

C4_Witness ==
    /\ TimedOutAllTyping
    /\ poll.result = "Hello! 42\n\n▍"

\* C5 as stated: after the tick whose sample is 'Error: Claude process not
\* found' the poller has stopped: it returned through the break and neither
\* sleeps nor samples again.
C5_ProcessNotFoundAborts ==
    poll.currentText = ProcessNotFound => (poll.pc = "done" /\ poll.exit = "abort")

\* C6: a poll that ends at the timeout or at the break returns
\* lastResponseText when it is not empty and the fallback text otherwise.
C6_FallThroughReturnsLastOrFallback ==
    (poll.pc = "done" /\ poll.exit \in {"timeout", "abort"}) =>
        /\ poll.lastResponseText # "" =>
               /\ poll.result = poll.lastResponseText
               /\ poll.result # UnableToRead(poll.originalPrompt)
        /\ poll.lastResponseText = "" =>
               poll.result = UnableToRead(poll.originalPrompt)

C6_Witness ==
    /\ poll.pc = "done"
    /\ poll.exit = "abort"
    /\ poll.result = "Hello"

\* C7 as stated: a tick whose sample is an error sentinel of the sampling
\* script leaves stableCount and lastResponseText unchanged, and the sentinel
\* is neither recorded as the candidate nor returned.
C7_SentinelTickIsNoOp ==
    [][(poll.pc = "sample" /\ run.pc = "returned" /\ IsErrorSentinel(run.result)) =>
           /\ poll'.stableCount = poll.stableCount
           /\ poll'.lastResponseText = poll.lastResponseText
           /\ ~IsErrorSentinel(poll'.lastResponseText)
           /\ ~IsErrorSentinel(poll'.result)]_vars

(***************************************************************************)
(* Properties of runAppleScript (checked under SpecRun).                   *)
(***************************************************************************)
\* C8: with retries >= 1 and a valid script, every attempt executes the script
\* once, there are at most `retries` executions, a return follows the first
\* successful execution (k - 1 failures, then k executions) with its output,
\* and the throw follows exactly `retries` failed executions.
C8_RetriesUntilFirstSuccess ==
    (run.pc # "idle" /\ run.retries >= 1 /\ ValidationFailure(run.script) = NoError) =>
        /\ run.execs = run.attempt
        /\ run.execs <= run.retries
        /\ run.delays = run.execs - 1
        /\ run.pc = "exec" => run.failures = run.execs - 1
        /\ run.pc = "delay" => run.failures = run.execs /\ run.execs < run.retries
        /\ run.pc = "returned" =>
               /\ run.failures = run.execs - 1
               /\ run.result = trim(run.stdout)
        /\ run.pc = "thrown" =>
               /\ run.execs = run.retries
               /\ run.failures = run.retries

C8_Witness ==
    /\ run.pc = "returned"
    /\ run.retries = 3
    /\ run.failures = 2
    /\ run.execs = 3
    /\ run.result = "Success"

\* C9 as stated: an empty or too long script is rejected at once: the call has
\* thrown an error of code INVALID_INPUT with no execution, no retry attempt
\* and no retry delay.
C9_InvalidScriptRejectedAtOnce ==
    (run.pc # "idle" /\ run.retries >= 1 /\ ValidationFailure(run.script) # NoError) =>
        /\ run.pc = "thrown"
        /\ run.error.code = "INVALID_INPUT"
        /\ run.execs = 0
        /\ run.attempt = 1
        /\ run.delays = 0

\* C10 as stated: the error thrown when the attempts are exhausted is
\* classified from the error of the last attempt (Timeout, else
\* PermissionDenied, else ExecutionFailed), carries its message, and carries
\* the number parsed from a message that ends in "(<digits>)".
C10_ExhaustionClassification ==
    (run.pc = "thrown" /\ run.retries >= 1) =>
        /\ run.error.code =
               IF run.caught.code = "ETIMEDOUT" \/ includes(run.caught.message, "timeout")
               THEN "APPLESCRIPT_TIMEOUT"
               ELSE IF includes(run.caught.message, "is not allowed to send keystrokes")
               THEN "APPLESCRIPT_PERMISSION_DENIED"
               ELSE "APPLESCRIPT_EXECUTION_FAILED"
        /\ run.error.scriptError = run.caught.message
        /\ endsWith(run.error.message, run.caught.message)
        /\ errorMatch(run.caught.message) # "" =>
               run.error.appleScriptErrorNumber = parseInt(errorMatch(run.caught.message))

(***************************************************************************)
(* Properties of the script executions (checked under SpecRun).            *)
(***************************************************************************)
\* the number of script executions that are running
Executing ==
    (IF run.pc = "exec" THEN 1 ELSE 0) + (IF abandoned THEN 1 ELSE 0)

\* C11 as stated: at any moment at most one automation script is executing;
\* in particular no attempt is started while the execution of an attempt
\* abandoned by the timeout race is still running.
C11_AtMostOneScriptExecuting == Executing <= 1

(***************************************************************************)
(* Properties of askClaude (checked under SpecAsk).                        *)
(***************************************************************************)
\* askClaude has finished
AskFinished == ask.pc \in {"returned", "thrown"}

\* C12 as stated: when a call of askClaude that reached the clipboard read
\* finishes, by a return or by a throw, the clipboard holds what it held
\* when the call started (an empty or a non-textual content included).
C12_ClipboardUnchangedByCall ==
    (AskFinished /\ ask.invocations >= 1) => clipboard = ask.clipboardAtStart

\* C13 as stated: the clipboard handling does not change what the caller
\* observes: a call that reached the clipboard read throws only because the
\* submit script failed (no failure to read or to prepare the saved content
\* aborts it) and then throws the conversion of that failure, and a call that
\* returns returns the reply of the poller, whether or not the restore failed.
C13_ClipboardHandlingUnobserved ==
    /\ (ask.pc = "thrown" /\ ask.invocations >= 1) =>
           /\ ask.caught # NoError
           /\ ask.error = convertError(ask.caught)
    /\ ask.pc = "returned" => ask.result = ask.response

\* the call was made with an empty or whitespace-only prompt, a prompt longer
\* than maxPromptLength, or a conversation id longer than
\* maxConversationIdLength
InvalidCall ==
    \/ \A i \in 1..Len(ask.prompt) : charAt(ask.prompt, i) \in WhiteSpace
    \/ Len(ask.prompt) > maxPromptLength
    \/ Len(ask.conversationId) > maxConversationIdLength

\* C14: a call of askClaude with an invalid prompt or conversation id throws
\* a ValidationError before any script is run: runAppleScript was not called,
\* not even for the clipboard read, no sample was taken and the clipboard is
\* untouched.
C14_InvalidCallRunsNoScript ==
    (ask.pc \notin {"idle", "start"} /\ InvalidCall) =>
        /\ ask.pc = "thrown"
        /\ ask.error.name = "ValidationError"
        /\ ask.error.code = "VALIDATION_FAILED"
        /\ ask.invocations = 0
        /\ run = IdleRun
        /\ ~poll.sampled
        /\ clipboard = ask.clipboardAtStart

\* a whitespace-only prompt and a too long conversation id were rejected
C14_Witness ==
    /\ ask.pc = "thrown"
    /\ ask.error.name = "ValidationError"
    /\ \/ ask.prompt = " \n "
       \/ Len(ask.conversationId) = maxConversationIdLength + 1

\* the errors of the closed set: InvalidInput, TargetNotRunning,
\* WindowNotFound, and AutomationFailure with one of its three classes
Classified(error) ==
    \/ error.name = "ValidationError" /\ error.code = "VALIDATION_FAILED"
    \/ error.name = "AppleScriptError" /\ error.code = "INVALID_INPUT"
    \/ /\ error.name = "ClaudeDesktopError"
       /\ error.code \in {"CLAUDE_NOT_RUNNING", "CLAUDE_WINDOW_NOT_FOUND"}
    \/ /\ error.name = "AppleScriptError"
       /\ error.code \in {"APPLESCRIPT_TIMEOUT", "APPLESCRIPT_PERMISSION_DENIED",
                          "APPLESCRIPT_EXECUTION_FAILED"}

\* C15: a call of askClaude that has finished either returned a string and
\* threw nothing, or threw one error of the closed set and returned nothing;
\* it never throws an unclassified error.
C15_ReturnsOrThrowsClassified ==
    /\ ask.pc = "returned" => (ask.result \in STRING /\ ask.error = NoError)
    /\ ask.pc = "thrown" => (Classified(ask.error) /\ ask.result = "")
    /\ ask.pc \notin {"returned", "thrown"} => (ask.error = NoError /\ ask.result = "")

\* the submit script failed with an error the script engine raised, and
\* askClaude threw it as an AutomationFailure
C15_Witness ==
    /\ ask.pc = "thrown"
    /\ ask.caught.name = "AppleScriptError"
    /\ ask.error.code \in {"APPLESCRIPT_TIMEOUT", "APPLESCRIPT_PERMISSION_DENIED",
                           "APPLESCRIPT_EXECUTION_FAILED"}

\* the failure of the submit script carries the OS error number `number`
\* (its message ends in "(<number>)") or its message contains `phrase`
FailureCarries(number, phrase) ==
    \/ endsWith(ask.caught.scriptError, "(" \o number \o ")")
    \/ includes(ask.caught.scriptError, phrase)

\* C16: when the submit script failed, askClaude throws CLAUDE_NOT_RUNNING if
\* the failure carries number 1001 or the phrase 'Claude Desktop is not
\* running'; otherwise CLAUDE_WINDOW_NOT_FOUND if it carries number 1002 or
\* the phrase 'No Claude window available'; otherwise the error of
\* runAppleScript itself, with the code runAppleScript gave it.
C16_SubmitFailureConversion ==
    (ask.pc = "thrown" /\ ask.caught # NoError) =>
        IF FailureCarries("1001", "Claude Desktop is not running")
        THEN /\ ask.error.name = "ClaudeDesktopError"
             /\ ask.error.code = "CLAUDE_NOT_RUNNING"
        ELSE IF FailureCarries("1002", "No Claude window available")
        THEN /\ ask.error.name = "ClaudeDesktopError"
             /\ ask.error.code = "CLAUDE_WINDOW_NOT_FOUND"
        ELSE /\ ask.error = ask.caught
             /\ ask.error.name = "AppleScriptError"
             /\ ask.error.code = ErrorCodeOf(Error(ask.caught.scriptError, ask.caught.exitCode))

\* the submit failed with number 1002 and no window phrase, and askClaude
\* threw CLAUDE_WINDOW_NOT_FOUND
C16_Witness ==
    /\ ask.pc = "thrown"
    /\ endsWith(ask.caught.scriptError, "(1002)")
    /\ ~includes(ask.caught.scriptError, "No Claude window available")
    /\ ask.error.code = "CLAUDE_WINDOW_NOT_FOUND"

\* the poller of the request is active, or a sampling script was started
Sampling ==
    \/ poll.pc # "idle"
    \/ poll.sampled
    \/ ask.sampled
    \/ (run.pc # "idle" /\ run.script = SampleScript)

\* C17: within a request nothing of the poller runs before the submit script
\* has returned and responseStartDelay has elapsed since, and the submit
\* script is not running then any more; when the submit script failed, no
\* sampling script is ever started.
C17_SubmitThenSettleThenPoll ==
    /\ Sampling =>
           /\ ask.submittedAt # NotYet
           /\ now >= ask.submittedAt + ResponseStartDelay
           /\ ask.pc \in {"poll", "restore", "returned"}
           /\ ask.caught = NoError
    /\ poll.pc \notin {"idle", "start"} =>
           poll.startTime >= ask.submittedAt + ResponseStartDelay
    /\ (ask.pc = "submit" \/ ask.caught # NoError) => ~Sampling

\* the first sampling script runs, started when the settle delay ended
C17_Witness ==
    /\ poll.pc = "sample"
    /\ run.pc = "exec"
    /\ run.script = SampleScript
    /\ poll.startTime = ask.submittedAt + ResponseStartDelay
    /\ now = poll.startTime

(***************************************************************************)
(* Properties of the SKIP_CLAUDE_POLLING switch (checked under Spec).      *)
(***************************************************************************)
\* C18: when SKIP_CLAUDE_POLLING is 'true', pollForClaudeResponse starts no
\* sampling script and returns the fixed acknowledgement; when the variable
\* is unset or has any other value, it does not return the acknowledgement
\* and its first step starts a sample.
C18_SkipOnlyWhenFlagIsTrue ==
    /\ (poll.SKIP_CLAUDE_POLLING = "true" /\ poll.pc # "idle") =>
           /\ ~poll.sampled
           /\ run = IdleRun
           /\ poll.pc \in {"start", "done"}
           /\ poll.pc = "done" =>
                  /\ poll.exit = "skipped"
                  /\ poll.result
                       = "Message sent to Claude Desktop successfully. Response polling is disabled."
    /\ (poll.SKIP_CLAUDE_POLLING # "true" /\ poll.pc \notin {"idle", "start"}) =>
           /\ poll.sampled
           /\ poll.exit # "skipped"
           /\ poll.result # SkippedMessage

\* the flag was 'true' and the acknowledgement was returned
C18_Witness ==
    /\ poll.SKIP_CLAUDE_POLLING = "true"
    /\ poll.pc = "done"
    /\ poll.result = SkippedMessage

(***************************************************************************)
(* Properties of the value askClaude returns (checked under SpecAsk).      *)
(***************************************************************************)
\* C19: whenever askClaude returns, and whenever the poller it awaits
\* returns, the value is a string of at least one character: the captured
\* reply, the last candidate, the fallback text or the acknowledgement.
C19_ReturnsNonEmptyString ==
    /\ ask.pc = "returned" => (ask.result \in STRING /\ Len(ask.result) > 0)
    /\ poll.pc = "done" => (poll.result \in STRING /\ Len(poll.result) > 0)
    /\ ask.pc \in {"restore", "returned"} => Len(ask.response) > 0

\* no reply was captured and askClaude returned the fallback text
C19_Witness ==
    /\ ask.pc = "returned"
    /\ ask.sampled
    /\ ask.result = UnableToRead(ask.prompt)

(***************************************************************************)
(* Properties of extractClaudeResponse (checked under SpecExtract).        *)
(***************************************************************************)
\* extractClaudeResponse returned a text
Extracted == ext.pc = "returned" /\ ~ext.result.null

\* the raw text as the extractor cleans it
Cleaned == trim(normalizeNewlines(ext.fullText))

\* the result holds one of the UI element strings
HoldsUIElement == \E element \in uiElements : includes(ext.result.text, element)

\* C20 as stated: a non-null result holds neither the prompt nor any of the
\* UI element strings.
C20_ResultHoldsNoPromptNoChrome ==
    Extracted => (~includes(ext.result.text, ext.prompt) /\ ~HoldsUIElement)

\* C20 amended: a non-null result is not empty and never holds 'No content
\* added yet'.  It holds a UI element string only when it is the whole
\* cleaned text, longer than MinFallbackLength, returned because no reply was
\* found after the prompt; it holds the prompt only then, or when the prompt
\* occurs again after its first occurrence.
C20_ChromeOnlyInFullTextFallback ==
    Extracted =>
        /\ ext.result.text # ""
        /\ ~includes(ext.result.text, "No content added yet")
        /\ HoldsUIElement =>
               (ext.result.text = Cleaned /\ Len(Cleaned) > MinFallbackLength)
        /\ includes(ext.result.text, ext.prompt) =>
               \/ ext.result.text = Cleaned /\ Len(Cleaned) > MinFallbackLength
               \/ includes(substringFrom(Cleaned, indexOf(Cleaned, ext.prompt)
                                                   + Len(ext.prompt)),
                            ext.prompt)

\* a reply followed by a UI element was extracted without it
C20_Witness ==
    /\ Extracted
    /\ includes(ext.fullText, ext.prompt \o "Hello! 42" \o "Copy")
    /\ ext.result.text = "Hello! 42"

(***************************************************************************)
(* Properties of the ticks of pollForClaudeResponse (checked under Spec).  *)
(***************************************************************************)
\* the step is a tick whose sample returned
TickStep == poll.pc = "sample" /\ run.pc = "returned" /\ poll'.pc # "sample"

\* the candidate extracted from the sample of the tick
TickCandidate == extractClaudeResponse(run.result, poll.originalPrompt)

\* C29 as stated: on a tick with a successful sample, a candidate that
\* differs from lastResponseText is recorded and stableCount reset to 0; a
\* candidate equal to it increments stableCount by exactly 1 and leaves it
\* unchanged; no candidate leaves it unchanged and stableCount not incremented.
C29_TickUpdatesCounters ==
    [][TickStep =>
           IF TickCandidate.null
           THEN /\ poll'.lastResponseText = poll.lastResponseText
                /\ poll'.stableCount <= poll.stableCount
           ELSE IF TickCandidate.text # poll.lastResponseText
           THEN /\ poll'.lastResponseText = TickCandidate.text
                /\ poll'.stableCount = 0
           ELSE /\ poll'.lastResponseText = poll.lastResponseText
                /\ poll'.stableCount = poll.stableCount + 1]_vars

\* C29 amended: as above, but a candidate equal to lastResponseText
\* increments stableCount by exactly 1 only when the sample holds no typing
\* indicator; with an indicator stableCount is 0 after the tick.  The
\* session starts with stableCount = 0 and no candidate.
C29_TickUpdatesCountersUnlessTyping ==
    [][/\ (poll.pc = "start" /\ poll'.pc = "sample") =>
              (poll'.stableCount = 0 /\ poll'.lastResponseText = "")
       /\ TickStep =>
              IF TickCandidate.null
              THEN /\ poll'.lastResponseText = poll.lastResponseText
                   /\ poll'.stableCount <= poll.stableCount
              ELSE IF TickCandidate.text # poll.lastResponseText
              THEN /\ poll'.lastResponseText = TickCandidate.text
                   /\ poll'.stableCount = 0
              ELSE /\ poll'.lastResponseText = poll.lastResponseText
                   /\ poll'.stableCount = IF HasTypingIndicator(run.result) THEN 0
                                          ELSE poll.stableCount + 1]_vars

\* a tick found the candidate of the tick before, with no typing indicator,
\* and counted it
C29_Witness ==
    /\ poll.pc = "sleep"
    /\ poll.repeated
    /\ poll.stableCount = 1
    /\ ~HasTypingIndicator(poll.currentText)

\* C30: after a tick whose raw sample holds a typing indicator ("▍",
\* "Claude is typing" or "Thinking") stableCount is 0, whether or not the
\* extracted candidate equalled lastResponseText on that tick.
C30_TypingIndicatorResetsStableCount ==
    [][(TickStep /\ HasTypingIndicator(run.result)) =>
           (poll'.pc = "sleep" /\ poll'.stableCount = 0)]_vars

\* a tick ended whose sample held a typing indicator and whose candidate was
\* the one recorded by the tick before
C30_Witness ==
    /\ poll.pc = "sleep"
    /\ poll.repeated
    /\ HasTypingIndicator(poll.currentText)
    /\ poll.stableCount = 0

(***************************************************************************)
(* Properties of the Logger and of ErrorHandler.handle (checked under      *)
(* SpecLog).                                                               *)
(***************************************************************************)
\* the severity of the latest call of the logger: ERROR=0, WARN=1, INFO=2, DEBUG=3
CalledSeverity ==
    CASE logger.called = "error" -> 0
      [] logger.called = "warn"  -> 1
      [] logger.called = "info"  -> 2
      [] logger.called = "debug" -> 3

CalledTag ==
    CASE logger.called = "error" -> "[ERROR]"
      [] logger.called = "warn"  -> "[WARN]"
      [] logger.called = "info"  -> "[INFO]"
      [] logger.called = "debug" -> "[DEBUG]"

UnknownMessage(error) ==
    IF error.name \in {"Error", "string", "object"} THEN error.message
    ELSE "Unknown error occurred"

\* the method of logger that the claim gives to an error
ExpectedMethod(error) ==
    IF isKnownError(error)
       /\ error.code \in {"VALIDATION_FAILED", "INVALID_INPUT", "MISSING_REQUIRED_FIELD"}
    THEN "warn"
    ELSE IF isKnownError(error)
            /\ error.code \in {"CLAUDE_NOT_RUNNING", "CLAUDE_WINDOW_NOT_FOUND"}
    THEN "info"
    ELSE "error"

AllFailed == \A i \in 1..Len(retry.outcomes) : retry.outcomes[i] # NoError

\* the errors the default policy does not retry, as the claims name them
NonRetryable(error) ==
    \/ error.name = "ValidationError"
    \/ error.code \in {"APPLESCRIPT_PERMISSION_DENIED", "CLAUDE_NOT_RUNNING"}

\* every failure so far is one that the policy of the call retries
AllRetried ==
    \/ retry.shouldRetry = "always"
    \/ /\ retry.shouldRetry = "default"
       /\ \A i \in 1..Len(retry.outcomes) : ~NonRetryable(retry.outcomes[i])

\* C21: withRetry invokes the operation again after a failure until it
\* succeeds or maxAttempts invocations have been made: when the k-th
\* invocation is the first that succeeds, withRetry resolves with its result
\* after exactly k invocations (k <= maxAttempts); the operation is never
\* invoked after a success nor more than maxAttempts times, and a call whose
\* failures are all retried rejects only after maxAttempts invocations.
C21_RetriesUntilSuccessOrMaxAttempts ==
    /\ retry.invocations <= retry.maxAttempts
    /\ retry.pc = "operation" =>
           (AllFailed /\ Len(retry.outcomes) = retry.invocations - 1)
    /\ retry.pc = "resolved" =>
           LET k == Len(retry.outcomes)
           IN  /\ retry.outcomes[k] = NoError
               /\ \A i \in 1..(k - 1) : retry.outcomes[i] # NoError
               /\ retry.invocations = k
               /\ retry.result = "Success"
    /\ (retry.pc = "rejected" /\ AllRetried) =>
           retry.invocations = retry.maxAttempts

\* fail, fail, succeed with maxAttempts = 3: 'Success' after exactly 3 calls
C21_Witness ==
    /\ retry.pc = "resolved"
    /\ retry.maxAttempts = 3
    /\ retry.invocations = 3
    /\ retry.result = "Success"

\* C22: with the default policy an error that is not retryable (a
\* ValidationError, the code APPLESCRIPT_PERMISSION_DENIED or
\* CLAUDE_NOT_RUNNING) ends the call: that same error is rethrown with no
\* delay after it and no further invocation; thrown by the first
\* invocation, the operation was invoked exactly once and no delay was
\* waited, whatever maxAttempts is.
C22_NonRetryableErrorIsRethrownAtOnce ==
    retry.shouldRetry = "default" =>
        \A i \in 1..Len(retry.outcomes) :
            NonRetryable(retry.outcomes[i]) =>
                /\ retry.pc = "rejected"
                /\ retry.error = retry.outcomes[i]
                /\ retry.invocations = i
                /\ Len(retry.delays) = i - 1

\* a ValidationError thrown by the first invocation with maxAttempts = 3
C22_Witness ==
    /\ retry.shouldRetry = "default"
    /\ retry.maxAttempts = 3
    /\ retry.pc = "rejected"
    /\ retry.error.name = "ValidationError"
    /\ retry.invocations = 1
    /\ retry.delays = <<>>

\* C23: onRetry is called once per retry, with the error of the attempt that
\* just failed and the 1-based number of that attempt, after the failure and
\* before the next invocation: while the delay is awaited there are as many
\* calls as invocations, otherwise one fewer, so that no call follows a
\* success, the final failed attempt or an error that is not retried.
C23_OnRetryOncePerRetry ==
    (retry.onRetry /\ retry.pc # "idle") =>
        /\ Len(retry.onRetryCalls) =
               IF retry.pc = "delay" THEN retry.invocations ELSE retry.invocations - 1
        /\ \A i \in 1..Len(retry.onRetryCalls) :
               retry.onRetryCalls[i] = [error |-> retry.outcomes[i], attempt |-> i]

\* two failures, then a success: onRetry was called with attempts 1 and 2
C23_Witness ==
    /\ retry.onRetry
    /\ retry.pc = "resolved"
    /\ retry.invocations = 3
    /\ Len(retry.onRetryCalls) = 2
    /\ retry.onRetryCalls[2].attempt = 2
    /\ retry.onRetryCalls[2].error = retry.outcomes[2]

(***************************************************************************)
(* Properties of ToolHandler (checked under SpecTool).                     *)
(***************************************************************************)
\* C25: handleAsk and handleGetConversations never reject.  A call that
\* ended resolved with a response of exactly one text item: when nothing was
\* thrown, the text captured by askClaude (or the rendered list of
\* conversations), not marked as an error; when the validation, the
\* submission or the polling threw, the isError response that
\* ErrorHandler.handle gives for that error and the name of the tool.
C25_ToolHandlerNeverRejects ==
    /\ tool.pc # "rejected"
    /\ tool.pc = "resolved" =>
           /\ Len(tool.response.content) = 1
           /\ tool.response.content[1].type = "text"
           /\ IF tool.error = NoError
              THEN /\ ~tool.response.isError
                   /\ tool.name = "ask" =>
                          (ask.pc = "returned" /\ tool.response.content[1].text = ask.result)
              ELSE /\ tool.response.isError
                   /\ tool.response.content[1].text =
                          getUserFriendlyMessage(tool.error, tool.name)
                   /\ (tool.name = "ask" /\ ask.pc # "idle") =>
                          (ask.pc = "thrown" /\ tool.error = ask.error)

\* askClaude threw CLAUDE_NOT_RUNNING and handleAsk resolved with the fixed text
C25_Witness ==
    /\ tool.pc = "resolved"
    /\ tool.name = "ask"
    /\ ask.pc = "thrown"
    /\ tool.error.code = "CLAUDE_NOT_RUNNING"
    /\ tool.response.isError
    /\ tool.response.content[1].text =
           "Claude Desktop is not running. Please start Claude Desktop and try again."

(***************************************************************************)
(* Properties of handleCodeReviewRequest and pollForResponse.              *)
(***************************************************************************)
\* sendToClaudeDesktop threw: the catch block of handleCodeReviewRequest ran
SendFailed == review.pc = "resolved" /\ review.error # NoError

\* C26: handleCodeReviewRequest never rejects; it resolves with a response
\* whose status is "completed" or "failed" and whose reviewId is the id
\* generated for the call; when sending the request failed the status is
\* "failed", the review text contains the message of the error and no
\* response-check script was executed.
C26_ReviewNeverRejects ==
    /\ review.pc # "rejected"
    /\ review.pc = "resolved" =>
           /\ review.response.status \in {"completed", "failed"}
           /\ review.reviewId \in ReviewIds
           /\ review.response.reviewId = review.reviewId
    /\ SendFailed =>
           /\ review.response.status = "failed"
           /\ review.error.message # ""
           /\ includes(review.response.review, review.error.message)
           /\ review.checks = 0

\* the send script failed for the last time and the call resolved as failed
C26_Witness ==
    /\ SendFailed
    /\ review.error.name = "AppleScriptError"
    /\ review.response.status = "failed"
    /\ review.checks = 0

\* the value of checkClaudeDesktopResponse for the output of the check script
CheckedResponse == checkResponse(run.result, review.reviewId)

\* a step in which the check script of a review returns
CheckStep == review.pc = "check" /\ run.pc = "returned" /\ review' # review

\* the counters of pollForResponse and the response it returns
C27_ChecksAreBounded ==
    /\ review.checks <= review.maxAttempts
    /\ review.checks = review.attempts
    /\ review.lastCheckAt # NotYet => review.lastCheckAt - review.startTime < review.timeout
    /\ review.completedChecks >= 1 =>
           /\ review.completedChecks = 1
           /\ review.pc = "resolved"
           /\ review.response.status = "completed"
    /\ (review.pc = "resolved" /\ review.completedChecks = 0 /\ ~SendFailed) =>
           /\ review.response.status = "failed"
           /\ review.response.review = TimedOutReview

\* a check that returns is followed by its completed response, or by the sleep
C27_CompletedCheckIsReturned ==
    CheckStep =>
        IF CheckedResponse # NoReview
        THEN review'.pc = "resolved" /\ review'.response = CheckedResponse
        ELSE review'.pc = "sleep"

\* a sleep is followed by one more counted check, or by the return
C27_SleepLeadsToCheckOrReturn ==
    (review.pc = "sleep" /\ review' # review) =>
        \/ review'.pc = "resolved" /\ review'.attempts = review.attempts
        \/ review'.pc = "check" /\ review'.attempts = review.attempts + 1

\* C27: pollForResponse performs at most maxAttempts checks and starts none
\* once timeout has elapsed since its start; the first check that yields a
\* completed review is returned at once; a call that resolves without a
\* completed check and without a failed send has status "failed" and review
\* "Code review timed out"; every sleep is followed by one more counted
\* check or by the return, so that the loop ends after maxAttempts checks at
\* the latest.
C27_PollingTerminates ==
    /\ []C27_ChecksAreBounded
    /\ [][C27_CompletedCheckIsReturned]_vars
    /\ [][C27_SleepLeadsToCheckOrReturn]_vars

\* the timeout elapsed before maxAttempts checks were made, after a check
\* that found no review, and the call resolved as timed out
C27_Witness ==
    /\ review.pc = "resolved"
    /\ review.response.review = TimedOutReview
    /\ review.checks >= 1
    /\ review.checks < review.maxAttempts
    /\ now - review.startTime >= review.timeout

(***************************************************************************)
(* Properties of a failed sample.                                          *)
(***************************************************************************)
\* a step in which runAppleScript throws to the poller after its own retries
FailedSampleStep == poll.pc = "sample" /\ run.pc = "thrown" /\ poll' # poll

\* the message of the thrown error says that the process is gone
ProcessGone == includes(run.error.message, "Claude process not found")

\* the step that ends a sleep of the poller
WakeStep == poll.pc = "sleep" /\ poll' # poll

\* C31 as stated: a failed sample is caught by pollForClaudeResponse, which
\* starts no other sample in the tick, leaves stableCount and
\* lastResponseText unchanged, sleeps one interval and goes on with the
\* next tick.
C31_FailedSampleSleeps ==
    [][/\ FailedSampleStep =>
              /\ poll'.pc = "sleep"
              /\ run'.pc = "idle"
              /\ poll'.stableCount = poll.stableCount
              /\ poll'.lastResponseText = poll.lastResponseText
       /\ WakeStep =>
              /\ now' = now + PollInterval
              /\ poll'.pc = "sample" \/ (poll'.pc = "done" /\ poll'.exit = "timeout")]_vars

\* C31 amended: as above, unless the message of the thrown error contains
\* "Claude process not found": then the loop is left at once, without a
\* sleep or another tick, and the call returns the last recorded candidate,
\* or the fixed text when there is none.  In both cases the error is not
\* thrown to the caller and the counters are unchanged.
C31_FailedSampleSleepsUnlessProcessGone ==
    [][/\ FailedSampleStep =>
              /\ run'.pc = "idle"
              /\ poll'.stableCount = poll.stableCount
              /\ poll'.lastResponseText = poll.lastResponseText
              /\ IF ProcessGone
                 THEN /\ poll'.pc = "done"
                      /\ poll'.exit = "abort"
                      /\ poll'.result = IF poll.lastResponseText # ""
                                        THEN poll.lastResponseText
                                        ELSE UnableToRead(poll.originalPrompt)
                 ELSE poll'.pc = "sleep"
       /\ WakeStep =>
              /\ now' = now + PollInterval
              /\ poll'.pc = "sample" \/ (poll'.pc = "done" /\ poll'.exit = "timeout")]_vars

\* a sample threw after a candidate had been confirmed once: the poller
\* sleeps with the candidate and the count it had
C31_Witness ==
    /\ poll.pc = "sleep"
    /\ poll.threw
    /\ poll.stableCount = 1
    /\ poll.lastResponseText # ""

(***************************************************************************)
(* Properties of the retry delay of runAppleScript.                        *)
(***************************************************************************)
\* the waits made so far: one after each failed attempt but the last one
WaitsMatchRetries ==
    CASE run.pc \in {"exec", "returned"} -> run.delays = run.failures
      [] run.pc = "delay" -> run.delays = run.failures - 1 /\ run.attempt < run.retries
      [] run.pc = "thrown" /\ run.failures > 0 ->
             run.delays = run.failures - 1 /\ run.attempt = run.retries
      [] OTHER -> run.delays = 0

\* every wait lasts retryDelay and leads to the next attempt
WaitIsConstant ==
    (run.pc = "delay" /\ run' # run) =>
        /\ now' = now + RetryDelay
        /\ run'.attempt = run.attempt + 1
        /\ run'.delays = run.delays + 1

\* a step that ends an attempt waits only when the attempt failed and
\* another one follows; nothing is waited in the step itself
AttemptEndsWithoutWait ==
    (run.pc = "exec" /\ run' # run) =>
        /\ run'.delays = run.delays
        /\ run'.pc = "delay" <=> (run'.failures = run.failures + 1
                                  /\ run.attempt < run.retries)

\* C32: runAppleScript waits the same retryDelay before every retry,
\* whatever the attempt number; it waits only after a failed attempt that is
\* followed by another one, and neither after the last failed attempt nor
\* after a success.
C32_ConstantDelayBetweenAttempts ==
    /\ []WaitsMatchRetries
    /\ [][WaitIsConstant]_vars
    /\ [][AttemptEndsWithoutWait]_vars

\* three attempts failed: two waits, none after the last failure
C32_Witness ==
    /\ run.pc = "thrown"
    /\ run.retries = 3
    /\ run.failures = 3
    /\ run.delays = 2
    /\ now >= 2 * RetryDelay

(***************************************************************************)
(* Properties of the fallback of extractClaudeResponse.                    *)
(***************************************************************************)
\* the raw text is empty or starts with the mark of an error of the sampler
NoTextOrError == ext.fullText = "" \/ startsWith(ext.fullText, "Error:")

\* the cleaned text is long enough and is not the text of an empty conversation
FallbackApplies ==
    Len(Cleaned) > MinFallbackLength /\ ~includes(Cleaned, "No content added yet")

\* C33: when the prompt does not occur in the cleaned text,
\* extractClaudeResponse returns the whole cleaned text if it is longer than
\* 50 characters and does not hold 'No content added yet', and null
\* otherwise; an empty text and a text that starts with 'Error:' give null.
C33_FullTextFallback ==
    ext.pc = "returned" =>
        /\ NoTextOrError => ext.result = Null
        /\ (~NoTextOrError /\ ~includes(Cleaned, ext.prompt)) =>
               ext.result = IF FallbackApplies THEN Some(Cleaned) ELSE Null

\* a text of more than 50 characters without the prompt came back whole
C33_Witness ==
    /\ ext.pc = "returned"
    /\ ~NoTextOrError
    /\ ~includes(Cleaned, ext.prompt)
    /\ FallbackApplies
    /\ ext.result = Some(Cleaned)

(***************************************************************************)
(* Properties of a sample that holds the prompt and UI elements only.      *)
(***************************************************************************)
\* the prompt occurs in the cleaned text and what follows its first
\* occurrence is empty once cut at the first UI element
OnlyChromeAfterPrompt ==
    /\ ~NoTextOrError
    /\ includes(Cleaned, ext.prompt)
    /\ responseAfterPrompt(Cleaned, ext.prompt) = ""

\* C34 as stated: when nothing but UI elements follows the prompt,
\* extractClaudeResponse returns null, so that the poller gets no candidate
\* from a window that shows the prompt and UI elements only.
C34_PromptAndChromeGiveNull ==
    (ext.pc = "returned" /\ OnlyChromeAfterPrompt) => ext.result = Null

(***************************************************************************)
(* Properties of the submission of the prompt.                             *)
(***************************************************************************)
\* the executions of the submit script started so far by the call
SubmitExecutions ==
    ask.submitExecs + (IF ask.pc = "submit" THEN run.execs ELSE 0)

\* C35: a call of askClaude executes the submit script at most once,
\* however the execution ends: the loop of runAppleScript makes one attempt
\* and ErrorHandler.withRetry calls the operation once and waits for no
\* retry.
C35_SubmitScriptRunsAtMostOnce ==
    /\ SubmitExecutions <= 1
    /\ retry.invocations <= 1
    /\ retry.delays = <<>>
    /\ ask.pc = "submit" => (run.script = ask.script /\ run.retries = 1)
    /\ ask.pc \in {"recover", "thrown"} /\ ask.caught # NoError =>
           (retry.pc = "rejected" /\ retry.error = ask.caught)

\* the one execution of the submit script timed out and the call threw
C35_Witness ==
    /\ ask.pc = "thrown"
    /\ ask.caught.code = "APPLESCRIPT_TIMEOUT"
    /\ ask.submitExecs = 1
    /\ retry.pc = "rejected"
    /\ retry.invocations = 1

(***************************************************************************)
(* Properties of the number of ticks before the stable return.             *)
(***************************************************************************)
\* C36: pollForClaudeResponse returns by the stable path only a candidate
\* that was extracted on at least requiredStableChecks + 1 ticks of the
\* session, one that recorded it and requiredStableChecks that confirmed
\* it; so no reply is returned on the first two ticks.
C36_StableAfterEnoughTicks ==
    /\ poll.lastResponseText # "" => poll.seen >= poll.stableCount + 1
    /\ (poll.pc = "done" /\ poll.exit = "stable") =>
           /\ poll.result = poll.lastResponseText
           /\ poll.stableCount >= requiredStableChecks
           /\ poll.seen >= poll.stableCount + 1
           /\ poll.seen >= requiredStableChecks + 1

\* a reply was returned on the third tick that extracted it, three
\* intervals or more after the start of the session
C36_Witness ==
    /\ poll.pc = "done"
    /\ poll.exit = "stable"
    /\ poll.seen = requiredStableChecks + 1
    /\ now - poll.startTime >= (requiredStableChecks + 1) * PollInterval

(***************************************************************************)
(* Properties of the rejection of withRetry.                               *)
(***************************************************************************)
\* C37 as stated: when withRetry rejects, whatever maxAttempts is, the
\* operation was invoked at least once and the rejection value is the error
\* that its latest invocation threw.
C37_RejectsWithLastError ==
    retry.pc = "rejected" =>
        /\ retry.invocations >= 1
        /\ Len(retry.outcomes) = retry.invocations
        /\ retry.error = retry.outcomes[Len(retry.outcomes)]
        /\ retry.error # NoError

(***************************************************************************)
(* Properties of updateConfig (checked under SpecConfig).                  *)
(***************************************************************************)
\* the latest call of updateConfig raised
UpdateRaised == config.calls > 0 /\ config.error # ""

\* C38: updateConfig is atomic with respect to validation: when the merged
\* configuration fails validateConfig, the call raises and the config object
\* is left exactly as it was before the call, so a config that satisfied
\* validateConfig before a call of updateConfig satisfies it after the call
C38_UpdateConfigIsAtomic ==
    config.calls > 0 =>
        /\ validateConfig(config.object) # "" => config.error # ""
        /\ UpdateRaised => config.object = config.before
        /\ validateConfig(config.before) = "" => validateConfig(config.object) = ""

\* a call of updateConfig on a valid config raised, and the config object
\* holds the rejected settings
InvalidConfigInstalled ==
    /\ UpdateRaised
    /\ validateConfig(config.before) = ""
    /\ config.object # config.before

(***************************************************************************)
(* Properties of the pendingReviews registry under concurrent calls        *)
(* (checked under FairSpecReviews).                                        *)
(***************************************************************************)
\* the entry of pendingReviews under the key reviewId, NoReview when none
entryOf(map, reviewId) == IF reviewId \in DOMAIN map THEN map[reviewId] ELSE NoReview

\* from the moment a call resolves until its timer fires, the entry of its
\* reviewId has the status of the response the caller was given
EntryMatchesResponse ==
    \A i \in ReviewCalls :
        reviews[i].pc = "resolved" /\ reviews[i].timer = "armed" =>
            /\ reviews[i].reviewId \in DOMAIN pendingReviews
            /\ pendingReviews[reviews[i].reviewId].status = reviews[i].response.status

\* a call is resolved exactly when its timer is armed or has fired, and the
\* entry of a call whose timer has fired is gone
TimerArmedAtResolution ==
    \A i \in ReviewCalls :
        /\ reviews[i].pc = "resolved" <=> reviews[i].timer \in {"armed", "fired"}
        /\ reviews[i].timer = "fired" => reviews[i].reviewId \notin DOMAIN pendingReviews

\* a step in which the call i does nothing leaves the entry of the call i alone
OthersLeaveEntryAlone ==
    \A i \in ReviewCalls :
        reviews[i].reviewId # "" /\ reviews'[i] = reviews[i] =>
            entryOf(pendingReviews', reviews[i].reviewId)
                = entryOf(pendingReviews, reviews[i].reviewId)

\* an entry leaves the registry only when the timer of its call fires
RemovedByTimerOnly ==
    \A reviewId \in DOMAIN pendingReviews \ DOMAIN pendingReviews' :
        \E i \in ReviewCalls :
            /\ reviews[i].reviewId = reviewId
            /\ reviews[i].timer = "armed"
            /\ reviews'[i].timer = "fired"

\* every reviewId that is in the registry is removed from it later on
EveryEntryIsRemoved ==
    \A reviewId \in Uuids :
        (reviewId \in DOMAIN pendingReviews) ~> (reviewId \notin DOMAIN pendingReviews)

\* C39: for any interleaving of concurrent handleCodeReviewRequest calls, every
\* reviewId put into pendingReviews is eventually removed, by the timer armed
\* when its request finishes; from the moment a request resolves until that
\* removal the entry of its reviewId has the status of the response returned
\* to the caller; and one request never alters the entry of another
C39_RegistryEntries ==
    /\ [](EntryMatchesResponse /\ TimerArmedAtResolution)
    /\ [][OthersLeaveEntryAlone /\ RemovedByTimerOnly]_vars
    /\ EveryEntryIsRemoved

\* the timer of one call has fired, however it ended, while the entry of another
\* call, which completed, is still in the registry
C39_Witness ==
    \E i, j \in ReviewCalls :
        /\ reviews[i].timer = "fired"
        /\ reviews[j].timer = "armed"
        /\ reviews[j].response.status = "completed"
        /\ reviews[i].response.status = "failed"
        /\ DOMAIN pendingReviews = {reviews[j].reviewId}

(***************************************************************************)
(* Properties of the strings askClaude embeds in its scripts (checked      *)
(* under SpecAsk).                                                         *)
(***************************************************************************)
\* the value of the string literal that follows the first occurrence of head
\* in script (head ends with the opening quote of the literal)
literalAfter(script, head) ==
    stringLiteral(script, indexOf(script, head) + Len(head) + 1)

\* the submit script of the activation has been built
SubmitScriptBuilt == ask.script # ""

\* askClaude is running the script that restores the clipboard
RestoreScriptRuns ==
    /\ ask.pc \in {"restore", "recover"}
    /\ run.pc = "exec"
    /\ startsWith(run.script, SetClipboardTo)

\* C40: every caller-supplied string that askClaude embeds in an AppleScript
\* string literal (the prompt, the conversationId, the saved clipboard content)
\* is escaped, so that the literal of the script has the caller's string as
\* its value: a double quote or a backslash never ends the literal early
C40_EmbeddedStringsAreEscaped ==
    /\ SubmitScriptBuilt =>
           /\ literalAfter(ask.script, SetClipboardTo) = ask.prompt
           /\ ask.conversationId # "" =>
                  literalAfter(ask.script, ClickButton) = ask.conversationId
    /\ RestoreScriptRuns =>
           literalAfter(run.script, SetClipboardTo) = ask.originalClipboard

\* the literals of the prompt and of the saved clipboard content do have the
\* caller's strings as their values, quotes included
PromptAndClipboardAreEscaped ==
    /\ SubmitScriptBuilt => literalAfter(ask.script, SetClipboardTo) = ask.prompt
    /\ RestoreScriptRuns =>
           literalAfter(run.script, SetClipboardTo) = ask.originalClipboard

=============================================================================
